---- MODULE Spec2Model ----
(***************************************************************************)
(* A model of the agent execution engine of coro-code:                     *)
(*   core/src/agent/core.rs      AgentCore (step loop, restore, cancel)    *)
(*   core/src/llm/message.rs     LlmMessage helpers                        *)
(*   core/src/trajectory/recorder.rs  TrajectoryRecorder::record           *)
(*   core/src/agent/state.rs     PersistedAgentContext (snapshot, JSON)    *)
(*                                                                         *)
(* The engine is one record, eng, and every handler of the source is an    *)
(* operator from an engine record (and the inputs the environment gives    *)
(* it) to the engine record after the handler.  The LLM, the tools, the    *)
(* confirmation prompt, the output sink and the recorder's storage are the *)
(* environment: their answers are drawn from small sets by the actions.    *)
(*                                                                         *)
(* The points at which an invocation can be suspended, and so at which a   *)
(* cancellation can be seen by the select! races, are the LLM call, the    *)
(* confirmation round trip and the tool invocation; everything between two *)
(* of them is one action.                                                  *)
(***************************************************************************)
EXTENDS Integers, Sequences, FiniteSets, TLC

VARIABLES
    eng,        \* the AgentCore instance and the locals of its running invocation
    cancelled,  \* the AbortControllers that have been cancelled
    shadow,     \* a second engine fed the same inputs, whose emissions all succeed
    probe,      \* the last stand-alone operation applied, with the engine before it
    abort,      \* the registrations derived from the controllers, and their waits
    rec,        \* a TrajectoryRecorder shared by concurrent callers, and its file
    cli,        \* the CLI's shared agent slot, its mutex and the task calls on it
    out         \* a CliOutputHandler and the events it has been given

vars == <<eng, cancelled, shadow, probe, abort, rec, cli, out>>

(* ------------------------------ bounds -------------------------------- *)

MaxTasks == 2      \* task invocations on the one engine instance
MaxSteps == 2      \* largest config.max_steps the engine is constructed with
MaxCalls == 2      \* LLM calls over the life of the engine instance
MaxLen == 3        \* longest conversation history an operation is applied to
MaxEntries == 8    \* longest journal of a recorder whose engine is given a further task or step
MaxEmitted == 4    \* most events of an invocation whose engine is given a further task
MaxRegs == 3       \* registrations derived from the controllers
MaxCancels == 2    \* calls of cancel() on the controllers
MaxRecords == 2    \* calls of record() by one caller of the shared recorder
MaxSessions == 3   \* concurrent calls of execute_agent_task_with_context
MaxBroadcasts == 2 \* messages sent on the UI channel
MaxCapacity == 1   \* capacity of the UI channel handed to the calls
MaxExecutions == 2 \* execution ids of the tool events given to the output handler
MaxEvents == 3     \* events given to the output handler

(* ------------------------- small input sets --------------------------- *)

\* The text of the n-th task given to the engine: consecutive tasks differ.
Tasks(n) == IF n % 2 = 1 THEN {"t1"} ELSE {"t2"}
\* The controllers there are: the one the engine is constructed with, and the
\* one a caller installs afterwards.
Controllers == {"c1", "c2"}
RecorderKinds == {"auto"}
EntryKinds == {"task_start", "llm_request", "llm_response", "tool_call",
               "tool_result", "step_complete", "error", "task_complete"}

\* Tools that declare requires_confirmation (the tool registry's answer).
ConfirmTools == {"bash"}

(* ------------------------------ messages ------------------------------ *)

TextBlock(t) ==
    [type |-> "text", id |-> 0, name |-> "", is_error |-> FALSE, content |-> t]
ToolUse(id, name) ==
    [type |-> "tool_use", id |-> id, name |-> name, is_error |-> FALSE, content |-> ""]
ToolResult(id, is_error, content) ==
    [type |-> "tool_result", id |-> id, name |-> "", is_error |-> is_error,
     content |-> content]

Text(role, t) == [role |-> role, multimodal |-> FALSE, text |-> t, blocks |-> <<>>]
MultiModal(role, blocks) ==
    [role |-> role, multimodal |-> TRUE, text |-> "", blocks |-> blocks]

IsToolUse(b) == b.type = "tool_use"
IsTextBlock(b) == b.type = "text"

has_tool_use(m) ==
    m.multimodal /\ \E i \in 1..Len(m.blocks) : IsToolUse(m.blocks[i])

get_tool_uses_reversed(m) ==
    IF m.multimodal
    THEN LET u == SelectSeq(m.blocks, IsToolUse)
         IN  [i \in 1..Len(u) |-> u[Len(u) + 1 - i]]
    ELSE <<>>
get_tool_uses(m) ==
    IF m.multimodal THEN SelectSeq(m.blocks, IsToolUse) ELSE <<>>

\* get_text: the text parts of the message (joined by newlines in the source);
\* some = FALSE is None.
get_text(m) ==
    IF ~m.multimodal THEN [some |-> TRUE, parts |-> <<m.text>>]
    ELSE LET tp == SelectSeq(m.blocks, IsTextBlock)
         IN  [some |-> tp # <<>>, parts |-> [i \in 1..Len(tp) |-> tp[i].content]]

\* text_content.trim().is_empty()
TrimIsEmpty(parts) == \A i \in 1..Len(parts) : parts[i] \in {"", " "}

(* ------------------------- engine primitives -------------------------- *)

Ev(type, id, flag, n) == [type |-> type, id |-> id, flag |-> flag, n |-> n]
Entry(type, step, task, success) ==
    [type |-> type, step |-> step, task |-> task, success |-> success]

TokenUsageDefault == [input_tokens |-> 0, output_tokens |-> 0, total_tokens |-> 0]

\* Option<AgentExecutionContext>: some = FALSE is None.
NoContext ==
    [some |-> FALSE, original_goal |-> "", current_task |-> "", max_steps |-> 0,
     current_step |-> 0, token_usage |-> TokenUsageDefault]

NoResult == [kind |-> "none", success |-> FALSE, message |-> <<"", 0, "">>, steps |-> 0]

\* AgentExecution::success / AgentExecution::failure, returned as Ok(..)
ExecutionSuccess(message, steps) ==
    [kind |-> "Ok", success |-> TRUE, message |-> message, steps |-> steps]
ExecutionFailure(message, steps) ==
    [kind |-> "Ok", success |-> FALSE, message |-> message, steps |-> steps]
\* Err(e) out of execute_task_with_context
ExecutionErr(e) ==
    [kind |-> "Err", success |-> FALSE, message |-> <<e, 0, "">>, steps |-> 0]

\* AbortRegistration::is_cancelled, and readiness of AbortRegistration::cancelled()
is_cancelled_only_once_running(reg, cancelledNow) == FALSE
is_cancelled(reg, cancelledNow) == reg \in cancelledNow

\* The tools of the configuration the engine is constructed with; the tool
\* executor is built from them once, in the constructor (lines 68-70).
DefaultTools == {"bash", "task_done"}

\* The engine as its constructor leaves it (new_with_llm_config), with the
\* locals of execute_task_with_context and the observation fields.
NewEngine(max_steps, controller) ==
    [ config |-> [max_steps |-> max_steps, tools |-> DefaultTools],
      tool_executor |-> DefaultTools,
      trajectory_recorder |-> "none",
      journal |-> <<>>,
      conversation_history |-> <<>>,
      execution_context |-> NoContext,
      abort_controller |-> controller,
      abort_registration |-> controller,
      \* locals of the running invocation
      pc |-> "idle",
      task |-> "",
      step |-> 0,
      task_completed |-> FALSE,
      interrupted |-> FALSE,
      cancel_reg |-> controller,
      messages |-> <<>>,
      tool_uses |-> <<>>,
      blk |-> 0,
      saving |-> "",
      emitting |-> "",
      held |-> <<>>,
      fault |-> "",
      result |-> NoResult,
      \* what the environment saw of the running invocation
      invocations |-> 0,
      calls_total |-> 0,
      ids_issued |-> 0,
      events |-> <<>>,
      emit_failed |-> FALSE,
      save_failed |-> FALSE,
      llm_calls |-> 0,
      blocks |-> <<>>,
      cancel_seen |-> "",
      last_comp |-> "",
      reported |-> "",
      entry_cancelled |-> FALSE,
      done_step |-> 0,
      llm_failed_step |-> 0 ]

\* `let _ = self.output.<emission>.await`: the sink is given the event and
\* the outcome is dropped.
emit_dropped(e, ev, ok) ==
    [e EXCEPT !.events = Append(@, ev), !.emit_failed = @ \/ ~ok]

\* self.output.emit_event(..).await.unwrap_or_else(|e| { let _ =
\* block_on(self.output.debug(..)); }): after a failed emission the same sink
\* is given a debug message, whose own outcome is dropped.
emit_event_propagating(e, ev, ok) ==
    [e EXCEPT !.events = IF ok THEN Append(@, ev)
                         ELSE @ \o <<ev, Ev("debug_message", 0, FALSE, ev.n)>>,
              !.emit_failed = @ \/ ~ok,
              !.fault = IF @ = "" /\ ~ok THEN "emit" ELSE @]
emit_event(e, ev, ok) ==
    [e EXCEPT !.events = IF ok THEN Append(@, ev)
                         ELSE @ \o <<ev, Ev("debug_message", 0, FALSE, ev.n)>>,
              !.emit_failed = @ \/ ~ok]

\* if let Some(recorder) = &self.trajectory_recorder { recorder.record(..).await?; }
\* TrajectoryRecorder::record pushes the entry and then, with auto_save, saves;
\* a failed save is the error the `?` propagates.  This is the call as
\* execute_task_with_context makes it, outside its select!: nothing can end
\* the wait for the save but the save.
record(e, entry, failing) ==
    IF e.trajectory_recorder = "none" THEN e
    ELSE LET fails == e.trajectory_recorder = "auto" /\ entry.type \in failing
         IN  [e EXCEPT !.journal = Append(@, entry),
                       !.save_failed = @ \/ fails,
                       !.fault = IF @ = "" /\ fails THEN "record" ELSE @]

\* The same call as execute_step_inner makes it, inside the select!s of
\* execute_step and execute_task_with_context, on an auto-saving recorder: the
\* entry is pushed and the step is suspended at save().await, holding the
\* value it goes on with.
record_in_step(e, entry, held) ==
    [e EXCEPT !.journal = Append(@, entry), !.pc = "save",
              !.saving = entry.type, !.held = held]

\* An emission of execute_step or execute_step_inner, inside the select!s of
\* execute_step and execute_task_with_context: the sink is given the event and
\* the step is suspended at the sink's .await, holding the value it goes on
\* with.  site names the emission among those of the step.
emit_in_step(e, site, ev, held) ==
    [e EXCEPT !.events = Append(@, ev), !.pc = "emit", !.emitting = site,
              !.saving = "", !.held = held]

\* The invocation returns: the locals die, the returned value is kept.
Return(e, result) ==
    [e EXCEPT !.pc = "idle", !.result = result, !.fault = "",
              !.messages = <<>>, !.tool_uses = <<>>, !.blk = 0,
              !.saving = "", !.emitting = "", !.held = <<>>]

\* The summary of lines 929-933 and 942-946.
Summary(task_completed, step) ==
    IF task_completed THEN <<"Task completed successfully", 0, "">>
    ELSE <<"Task incomplete after", step, "steps">>

\* execute_task_with_context after its loop (lines 916-1001).
Finish(e, in) ==
    LET e1 == [e EXCEPT !.execution_context =
                    IF @.some THEN [@ EXCEPT !.current_step = e.step] ELSE @]
        e2 == record(e1, Entry("task_complete", e.step, "", e.task_completed),
                     in.failing)
        summary == Summary(e.task_completed, e.step)
    IN  IF e2.fault # "" THEN Return(e2, ExecutionErr(e2.fault))
        ELSE IF e2.execution_context.some /\ e2.interrupted THEN
            Return(emit_event(e2, Ev("ExecutionInterrupted", 0, FALSE, e.step),
                              in.emitOk),
                   ExecutionFailure(<<"Execution interrupted", 0, "">>, e.step))
        ELSE
            LET e3 == IF e2.execution_context.some
                      THEN emit_event(e2, Ev("ExecutionCompleted", 0,
                                             e.task_completed, e.step), in.emitOk)
                      ELSE e2
            IN  IF e.task_completed
                THEN Return(e3, ExecutionSuccess(summary, e.step))
                ELSE Return(e3, ExecutionFailure(summary, e.step))

\* The Err(e) arm of the step's result (lines 891-910).
StepErr(e, err, in) ==
    LET e0 == [e EXCEPT !.fault = ""]
        e1 == record(e0, Entry("error", e.step, "", FALSE), in.failing)
    IN  IF e1.fault # "" THEN Return(e1, ExecutionErr(e1.fault))
        ELSE Return(e1, ExecutionFailure(<<"Error in step", e.step, err>>, e.step))

\* The Ok(completed) arm of the step's result (lines 877-890); the loop
\* condition is evaluated next.
StepOk_calling_again(e, completed, in) ==
    LET e1 == [e EXCEPT !.task_completed = completed]
        e2 == record(e1, Entry("step_complete", e.step, "", TRUE), in.failing)
    IN  IF e2.fault # "" THEN Return(e2, ExecutionErr(e2.fault))
        ELSE [e2 EXCEPT !.pc = IF e.tool_uses # <<>> /\ ~completed THEN "check"
                               ELSE "loop",
                        !.tool_uses = <<>>, !.blk = 0]
StepOk(e, completed, in) ==
    LET e1 == [e EXCEPT !.task_completed = completed]
        e2 == record(e1, Entry("step_complete", e.step, "", TRUE), in.failing)
    IN  IF e2.fault # "" THEN Return(e2, ExecutionErr(e2.fault))
        ELSE [e2 EXCEPT !.pc = "loop", !.tool_uses = <<>>, !.blk = 0]

(* ------------------------------ the LLM ------------------------------- *)

\* What chat_completion can answer: an error, or a message (plain text, or
\* tool-use blocks in the order given, after an optional text block), with or
\* without a usage report.
LlmResponses ==
    { [ok |-> FALSE, text |-> "",       names |-> <<>>,                    usage |-> FALSE],
      [ok |-> TRUE,  text |-> "answer", names |-> <<>>,                    usage |-> TRUE],
      [ok |-> TRUE,  text |-> " ",      names |-> <<>>,                    usage |-> FALSE],
      [ok |-> TRUE,  text |-> "",       names |-> <<"task_done">>,         usage |-> TRUE],
      [ok |-> TRUE,  text |-> "plan",   names |-> <<"bash", "task_done">>, usage |-> FALSE],
      [ok |-> TRUE,  text |-> "",       names |-> <<"task_done", "sequentialthinking">>,
                                                                           usage |-> FALSE] }

\* The usage a response reports when it reports one.
Usage == [prompt_tokens |-> 2, completion_tokens |-> 1, total_tokens |-> 3]

\* The assistant message of a response; the model numbers its tool-use ids on.
ResponseMessage(r, ids_issued) ==
    IF r.names = <<>> THEN Text("Assistant", r.text)
    ELSE MultiModal("Assistant",
            (IF r.text = "" THEN <<>> ELSE <<TextBlock(r.text)>>)
            \o [i \in 1..Len(r.names) |-> ToolUse(ids_issued + i, r.names[i])])

(* ------------------------------ the tools ----------------------------- *)

\* What the tool capability can answer for a tool: Ok with a successful or an
\* unsuccessful result, or Err.  bash fails by raising, the other two by an
\* unsuccessful result; the thinking tool can also answer with its thought in
\* the content (closed by an empty line) and no data; a tool the registry
\* does not know raises.
ToolOutcomes(name) ==
    CASE name = "bash" -> {"success", "error"}
      [] name = "task_done" -> {"success", "failure"}
      [] name = "sequentialthinking" -> {"success", "failure", "plain"}
      [] OTHER -> {"error"}
Decisions == {"approved", "denied", "failed"}

\* crate::tools::ToolResult: data is "none" for None, "thought" for a value
\* with a string under "thought".
ToolResultOf(outcome) ==
    CASE outcome = "success" -> [success |-> TRUE,  content |-> "ok", data |-> "thought"]
      [] outcome = "failure" -> [success |-> FALSE, content |-> "failed", data |-> "none"]
      [] outcome = "plain"   -> [success |-> TRUE,  content |-> "Thought: plan\n\nrest",
                                 data |-> "none"]
      \* Err(e) => ToolResult::error(id, format!("Tool execution failed: {}", e))
      [] outcome = "error"   -> [success |-> FALSE, content |-> "Tool execution failed",
                                 data |-> "none"]
\* ToolResult::error(id, "Execution cancelled by user")
CancelledByUser ==
    [success |-> FALSE, content |-> "Execution cancelled by user", data |-> "none"]

\* str::find: the place of the first occurrence of pat in s, 0 for None.
find(s, pat) ==
    LET at == {i \in 1..(Len(s) - Len(pat) + 1) : SubSeq(s, i, i + Len(pat) - 1) = pat}
    IN  IF at = {} THEN 0 ELSE CHOOSE i \in at : \A k \in at : i <= k

\* The thought of a result of the thinking tool (lines 512-551): the string
\* under "thought" of its data or, without data, what its content has
\* between the first "Thought: " and the next "\n\n"; a content without
\* the one or without the other after it has none.
has_thought(tool_result) ==
    IF tool_result.data # "none" THEN tool_result.data = "thought"
    ELSE LET start == find(tool_result.content, "Thought: ")
             rest == SubSeq(tool_result.content, start + Len("Thought: "),
                            Len(tool_result.content))
         IN  start # 0 /\ find(rest, "\n\n") # 0

\* tool_executor.get_tool(name).map(|t| t.requires_confirmation()).unwrap_or(false)
needs_confirm(name) == name \in ConfirmTools

(* --------------------------- execute_step_inner ------------------------ *)

\* What the environment saw of one tool-use block: the decision it gave on it,
\* whether the tool capability was invoked for it, and the result the engine
\* bound to it.
Block(b, step, invoked) ==
    [id |-> b.id, name |-> b.name, step |-> step, decision |-> "none",
     invoked |-> invoked, answered |-> FALSE, success |-> FALSE, content |-> ""]

\* The block whose tool_call entry is recorded (lines 419-485): the choice
\* between confirming and executing.
AfterToolCall(e) ==
    LET b == e.tool_uses[e.blk]
    IN  IF needs_confirm(b.name)
        THEN [e EXCEPT !.pc = "confirm",
                       !.blocks = Append(@, Block(b, e.step, FALSE))]
        ELSE [e EXCEPT !.pc = "tool",
                       !.blocks = Append(@, Block(b, e.step, TRUE))]

\* The tool_call entry of a block (lines 415-418), after its started event.
RecordToolCall(e) ==
    IF e.trajectory_recorder = "none" THEN AfterToolCall(e)
    ELSE record_in_step(e, Entry("tool_call", e.step, "", FALSE), <<>>)

\* One tool-use block up to its first suspension (lines 385-405): the started
\* event is handed to the sink.
BeginBlock(e, i) ==
    emit_in_step([e EXCEPT !.blk = i], "tool_started",
                 Ev("ToolExecutionStarted", e.tool_uses[i].id, FALSE, e.step), <<>>)

\* if name == "task_done" && tool_result.success { return Ok(true) }
IsTaskCompletion(name, tool_result) == name = "task_done" /\ tool_result.success

\* The Tool-role message of lines 567-577.
ResultMessage(id, tool_result) ==
    MultiModal("Tool", <<ToolResult(id, ~tool_result.success, tool_result.content)>>)

\* The block whose tool_result entry is recorded (lines 561-580), then the
\* next block or the end of the step (lines 583-586).
AfterToolResult(e, tool_result, in) ==
    LET b == e.tool_uses[e.blk]
    IN  IF IsTaskCompletion(b.name, tool_result)
        THEN StepOk(e, TRUE, in)
        ELSE LET e4 == [e EXCEPT !.conversation_history =
                                        Append(@, ResultMessage(b.id, tool_result))]
             IN  IF e.blk < Len(e.tool_uses) THEN BeginBlock(e4, e.blk + 1)
                 ELSE StepOk(e4, FALSE, in)

\* The tool_result entry of a block (lines 555-559).
RecordToolResult(e, tool_result, in) ==
    IF e.trajectory_recorder = "none" THEN AfterToolResult(e, tool_result, in)
    ELSE record_in_step(e, Entry("tool_result", e.step, "", tool_result.success),
                        <<tool_result>>)

\* After the completed event of a block (lines 510-553): for the thinking
\* tool, the thought is handed to the sink.
AfterCompleted(e, tool_result, in) ==
    LET b == e.tool_uses[e.blk]
    IN  IF b.name = "sequentialthinking" /\ has_thought(tool_result)
        THEN emit_in_step(e, "thinking", Ev("AgentThinking", b.id, FALSE, e.step),
                          <<tool_result>>)
        ELSE RecordToolResult(e, tool_result, in)

\* One tool-use block from its tool result to its next suspension (lines
\* 488-503): the completed event is handed to the sink.
AfterTool(e, tool_result) ==
    LET b  == e.tool_uses[e.blk]
        e0 == [e EXCEPT !.blocks[Len(e.blocks)] =
                    [@ EXCEPT !.answered = TRUE, !.success = tool_result.success,
                              !.content = tool_result.content]]
    IN  emit_in_step(e0, "tool_completed",
                     Ev("ToolExecutionCompleted", b.id, tool_result.success, e.step),
                     <<tool_result>>)

\* The confirmation's answer (lines 449-461): anything but an approval is a
\* refusal, and a refused tool is not executed.
IsApproved_fail_open(decision) == decision # "denied"
IsApproved(decision) == decision = "approved"

ConfirmRespondF(e, decision) ==
    LET e0 == [e EXCEPT !.blocks[Len(e.blocks)].decision = decision]
    IN  IF IsApproved(decision)
        THEN [e0 EXCEPT !.pc = "tool", !.blocks[Len(e.blocks)].invoked = TRUE]
        ELSE AfterTool(e0, CancelledByUser)

\* self.tool_executor.execute(tool_call).await, Ok or Err (lines 463-485).
ToolRespondF(e, outcome) ==
    LET done == e.tool_uses[e.blk].name = "task_done" /\ outcome = "success"
    IN  AfterTool([e EXCEPT !.done_step = IF done THEN e.step ELSE @],
                  ToolResultOf(outcome))

\* context.token_usage += usage, counter by counter (lines 347-349).
AddUsage_overwriting(token_usage, usage) ==
    [input_tokens |-> usage.prompt_tokens,
     output_tokens |-> usage.completion_tokens,
     total_tokens |-> usage.total_tokens]
AddUsage(token_usage, usage) ==
    [input_tokens |-> token_usage.input_tokens + usage.prompt_tokens,
     output_tokens |-> token_usage.output_tokens + usage.completion_tokens,
     total_tokens |-> token_usage.total_tokens + usage.total_tokens]

\* The response whose llm_response entry is recorded (lines 377-603): the
\* message joins the history, then its first tool-use block or its text, which
\* is handed to the sink unless it is blank.
AfterResponse(e, msg, in) ==
    LET e3 == [e EXCEPT !.conversation_history = Append(@, msg),
                        !.ids_issued = @ + Len(get_tool_uses(msg))]
    IN  IF has_tool_use(msg)
        THEN BeginBlock([e3 EXCEPT !.tool_uses = get_tool_uses(msg)], 1)
        ELSE LET t == get_text(msg)
             IN  IF t.some /\ ~TrimIsEmpty(t.parts)
                 THEN emit_in_step(e3, "text",
                                   Ev("normal_message", 0, FALSE, e.step), <<>>)
                 ELSE StepOk(e3, FALSE, in)

\* The llm_response entry (lines 360-375).
RecordResponse(e, msg, in) ==
    IF e.trajectory_recorder = "none" THEN AfterResponse(e, msg, in)
    ELSE record_in_step(e, Entry("llm_response", e.step, "", FALSE), <<msg>>)

\* The LLM's answer up to the step's next suspension (lines 329-375): an error
\* is handed to the sink as an error message; a reported usage is added to the
\* context and the token update handed to the sink.
LlmRespondF(e, r, in) ==
    LET e0 == [e EXCEPT !.messages = <<>>,
                        !.reported = IF ~r.ok THEN "error"
                                     ELSE IF r.usage THEN "usage" ELSE "no_usage"]
    IN  IF ~r.ok THEN
            emit_in_step([e0 EXCEPT !.llm_failed_step = e.step], "llm_error",
                         Ev("error_message", 0, FALSE, e.step), <<>>)
        ELSE
        LET msg == ResponseMessage(r, e.ids_issued)
        IN  IF r.usage /\ e0.execution_context.some
            THEN emit_in_step(
                   [e0 EXCEPT !.execution_context.token_usage = AddUsage(@, Usage)],
                   "token_update", Ev("TokenUsageUpdated", 0, FALSE, e.step), <<msg>>)
            ELSE RecordResponse(e0, msg, in)

(* ------------------------------ compression --------------------------- *)

FallbackMaxMessages == 50

\* a.saturating_sub(b) and std::cmp::max
SaturatingSub(a, b) == IF a >= b THEN a - b ELSE 0
Max(a, b) == IF a >= b THEN a ELSE b

\* fallback_trim_conversation_history (lines 702-730); indices are 0-based in
\* the source, h[iter_start..] is SubSeq(h, iter_start + 1, Len(h)).
fallback_trim_conversation_history_last_n(h, max_messages) ==
    IF Len(h) <= max_messages THEN h
    ELSE SubSeq(h, Len(h) - max_messages + 1, Len(h))
fallback_trim_conversation_history(h, max_messages) ==
    IF Len(h) <= max_messages THEN h
    ELSE LET new_history == IF Len(h) > 0 /\ h[1].role = "System" THEN <<h[1]>> ELSE <<>>
             keep_count  == SaturatingSub(max_messages, 1)
             start_index == SaturatingSub(Len(h), keep_count)
             skip_first  == new_history # <<>>
             iter_start  == IF skip_first THEN Max(1, start_index) ELSE start_index
         IN  new_history \o SubSeq(h, iter_start + 1, Len(h))

\* ConversationManager::maybe_compress: below the budget the history comes back
\* unchanged with no summary; above it the manager either summarises (leading
\* System message, one summary message, the most recent messages) or fails.
CompressAt == 4
KeepRecent == 2
CompressOutcomes(h) ==
    IF Len(h) >= CompressAt THEN {"unchanged", "summary", "error"} ELSE {"unchanged"}
Summarised(h) ==
    (IF h[1].role = "System" THEN <<h[1]>> ELSE <<>>)
    \o <<Text("User", "summary")>>
    \o SubSeq(h, Len(h) - KeepRecent + 1, Len(h))

\* apply_intelligent_compression (lines 637-699): always Ok(()).
apply_intelligent_compression_propagating(e, comp, in) ==
    CASE comp = "unchanged" -> e
      [] comp = "summary" ->
            emit_dropped(
              emit_dropped([e EXCEPT !.conversation_history = Summarised(@)],
                         Ev("CompressionStarted", 0, FALSE, e.step), in.emitOk),
              Ev("CompressionCompleted", 0, FALSE, e.step), in.emitOk)
      [] comp = "error" -> [e EXCEPT !.fault = "compress"]
apply_intelligent_compression_unannounced(e, comp, in) ==
    CASE comp = "unchanged" -> e
      [] comp = "summary" -> [e EXCEPT !.conversation_history = Summarised(@)]
      [] comp = "error" ->
            emit_dropped(
              [e EXCEPT !.conversation_history =
                    fallback_trim_conversation_history(@, FallbackMaxMessages)],
              Ev("CompressionFailed", 0, FALSE, e.step), in.emitOk)
apply_intelligent_compression(e, comp, in) ==
    CASE comp = "unchanged" -> e
      [] comp = "summary" ->
            emit_dropped(
              emit_dropped([e EXCEPT !.conversation_history = Summarised(@)],
                         Ev("CompressionStarted", 0, FALSE, e.step), in.emitOk),
              Ev("CompressionCompleted", 0, FALSE, e.step), in.emitOk)
      [] comp = "error" ->
            emit_dropped(
              [e EXCEPT !.conversation_history =
                    fallback_trim_conversation_history(@, FallbackMaxMessages)],
              Ev("CompressionFailed", 0, FALSE, e.step), in.emitOk)

(* ---------------------- execute_task_with_context --------------------- *)

\* build_user_message(task) as a User message, and the system prompt.
UserMessage(task) == Text("User", task)
SystemPrompt == Text("System", "system prompt")

\* Lines 793-797.
needs_synthetic_results(h) ==
    Len(h) > 0 /\ h[Len(h)].role = "Assistant" /\ has_tool_use(h[Len(h)])

\* Lines 799-829: one synthetic error result per tool-use block of the last message.
SyntheticResults_first_only(last_msg) ==
    LET tool_uses == get_tool_uses(last_msg)
    IN  <<MultiModal("Tool", <<ToolResult(tool_uses[1].id, TRUE,
                                "Previous task interrupted or incomplete")>>)>>
SyntheticResults(last_msg) ==
    LET tool_uses == get_tool_uses(last_msg)
    IN  [i \in 1..Len(tool_uses) |->
            MultiModal("Tool", <<ToolResult(tool_uses[i].id, TRUE,
                                 "Previous task interrupted or incomplete")>>)]

\* Lines 740-758.
EnterContext_fresh(ctx, task, max_steps) ==
    [some |-> TRUE, original_goal |-> task, current_task |-> task,
     max_steps |-> max_steps, current_step |-> 0,
     token_usage |-> ctx.token_usage]
EnterContext(ctx, task, max_steps) ==
    IF ~ctx.some
    THEN [some |-> TRUE, original_goal |-> task, current_task |-> task,
          max_steps |-> max_steps, current_step |-> 0,
          token_usage |-> TokenUsageDefault]
    ELSE [ctx EXCEPT !.current_task = task, !.current_step = 0]

\* Entry of execute_task_with_context up to its loop (lines 738-848).
StartTaskF(e, task, in, cancelledNow) ==
    LET e0 == [e EXCEPT !.execution_context = EnterContext(@, task, e.config.max_steps),
                        !.task = task, !.result = NoResult, !.fault = "",
                        !.invocations = @ + 1, !.events = <<>>, !.emit_failed = FALSE,
                        !.save_failed = FALSE,
                        !.llm_calls = 0, !.blocks = <<>>, !.cancel_seen = "",
                        !.last_comp = "", !.reported = "",
                        !.entry_cancelled = is_cancelled(e.abort_registration, cancelledNow),
                        !.done_step = 0, !.llm_failed_step = 0]
        e1 == emit_event(e0, Ev("ExecutionStarted", 0, FALSE, 0), in.emitOk)
        e2 == record(e1, Entry("task_start", 0, task, FALSE), in.failing)
    IN  IF e2.fault # "" THEN Return(e2, ExecutionErr(e2.fault))
        ELSE
        LET h0 == IF e2.conversation_history = <<>> THEN <<SystemPrompt>>
                  ELSE e2.conversation_history
            h1 == IF needs_synthetic_results(h0)
                  THEN h0 \o SyntheticResults(h0[Len(h0)]) ELSE h0
        IN  [e2 EXCEPT !.conversation_history = Append(h1, UserMessage(task)),
                       !.step = 0, !.task_completed = FALSE, !.interrupted = FALSE,
                       !.cancel_reg = e.abort_registration,
                       !.pc = "loop"]

\* The loop condition, `step += 1`, the first cancellation check and the
\* compression with its `?` (lines 851-861); a false condition leaves the loop.
LoopTopF(e, comp, in, cancelledNow) ==
    IF e.step < e.config.max_steps /\ ~e.task_completed THEN
        LET e1 == [e EXCEPT !.step = @ + 1, !.last_comp = ""]
        IN  IF is_cancelled(e.cancel_reg, cancelledNow)
            THEN Finish([e1 EXCEPT !.interrupted = TRUE, !.cancel_seen = "top"], in)
            ELSE LET e2 == apply_intelligent_compression(
                                [e1 EXCEPT !.last_comp = comp], comp, in)
                 IN  IF e2.fault # "" THEN Return(e2, ExecutionErr(e2.fault))
                     ELSE [e2 EXCEPT !.pc = "check"]
    ELSE Finish(e, in)

\* The outbound message list of a step (lines 296-306): the system prompt is
\* put in front of a copy of the history that does not begin with one.
outbound_messages_always_prompted(conversation_history) ==
    <<SystemPrompt>> \o conversation_history
outbound_messages(conversation_history) ==
    LET needs_system_prompt ==
            conversation_history = <<>> \/ conversation_history[1].role # "System"
    IN  (IF needs_system_prompt THEN <<SystemPrompt>> ELSE <<>>) \o conversation_history

\* self.llm_client.chat_completion(messages, ..) is called (lines 328-332).
chat_completion(e) ==
    [e EXCEPT !.pc = "llm", !.llm_calls = @ + 1, !.calls_total = @ + 1]

\* The second cancellation check (lines 864-867); when it passes, the step is
\* about to be raced against the registration by the select! of lines 870-874.
BeginStepF(e, in, cancelledNow) ==
    IF is_cancelled(e.cancel_reg, cancelledNow)
    THEN Finish([e EXCEPT !.interrupted = TRUE, !.cancel_seen = "post"], in)
    ELSE [e EXCEPT !.pc = "select"]

\* The step is polled for the first time and runs up to its first suspension
\* (lines 294-332): the outbound list is built, the llm_request entry
\* recorded, and the list handed to chat_completion.
execute_step_inner(e) ==
    LET e1 == [e EXCEPT !.messages = outbound_messages(e.conversation_history),
                        !.reported = ""]
    IN  IF e.trajectory_recorder = "none" THEN chat_completion(e1)
        ELSE record_in_step(e1, Entry("llm_request", e.step, "", FALSE), <<>>)

\* The save the step is suspended at returns (the `?` of lines 317, 374, 417
\* and 558): its error leaves the step, otherwise the step goes on from the
\* record call to its next suspension or its end.
SaveRespondF(e, in) ==
    LET fails == e.saving \in in.failing
        e0    == [e EXCEPT !.saving = "", !.held = <<>>, !.save_failed = @ \/ fails]
    IN  IF fails THEN StepErr(e0, "record", in)
        ELSE CASE e.saving = "llm_request"  -> chat_completion(e0)
               [] e.saving = "llm_response" -> AfterResponse(e0, e.held[1], in)
               [] e.saving = "tool_call"    -> AfterToolCall(e0)
               [] e.saving = "tool_result"  -> AfterToolResult(e0, e.held[1], in)

\* The emissions of the step whose outcome is dropped (`let _ = ..`, lines 284
\* and 337-340); after any other failed emission the same sink is given a
\* debug message (unwrap_or_else with block_on, lines 356, 406, 504, 523, 544
\* and 593), whose own outcome is dropped.
DroppedSites == {"llm_error", "interrupted"}

\* The emission the step is suspended at returns, delivered or failed; the
\* step goes on from it to its next suspension or its end.
EmitRespondF(e, in) ==
    LET announced == ~in.emitOk /\ e.emitting \notin DroppedSites
        e0 == [e EXCEPT !.emitting = "", !.held = <<>>,
                        !.emit_failed = @ \/ ~in.emitOk,
                        !.events = IF announced
                                   THEN Append(@, Ev("debug_message", 0, FALSE, e.step))
                                   ELSE @]
    IN  CASE e.emitting = "llm_error"      -> StepErr(e0, "llm error", in)
          [] e.emitting = "interrupted"    -> StepErr(e0, "Task interrupted by user", in)
          [] e.emitting = "token_update"   -> RecordResponse(e0, e.held[1], in)
          [] e.emitting = "tool_started"   -> RecordToolCall(e0)
          [] e.emitting = "tool_completed" -> AfterCompleted(e0, e.held[1], in)
          [] e.emitting = "thinking"       -> RecordToolResult(e0, e.held[1], in)
          [] e.emitting = "text"           -> StepOk(e0, FALSE, in)

\* A cancellation seen while the step is suspended: before its first poll, at
\* the LLM call, the confirmation, the tool, the save of a record call or an
\* emission.  The step is raced twice against the same registration: by the
\* select! of execute_task_with_context (lines 870-874) and, inside it, by the
\* select! of execute_step (lines 281-286).  select! polls its branches in an
\* order chosen at random, so either race can be the one that sees the
\* cancellation.  The inner one hands the sink its notice (line 284) inside the
\* future the outer one still races.
InterruptF(e, branch, in) ==
    IF branch = "outer"
    THEN Finish([e EXCEPT !.interrupted = TRUE, !.cancel_seen = "race_outer"], in)
    ELSE emit_in_step([e EXCEPT !.cancel_seen = "race_inner"], "interrupted",
                      Ev("normal_message", 0, FALSE, e.step), <<>>)

\* The races a suspended step can lose: once execute_step's select! has taken
\* its cancellation branch only the outer race is left.
Branches(e) ==
    IF e.pc = "emit" /\ e.emitting = "interrupted" THEN {"outer"}
    ELSE {"outer", "inner"}

\* set_abort_controller (lines 167-170), set_trajectory_recorder (623-625).
set_abort_controller_stale_registration(e, controller) ==
    [e EXCEPT !.abort_controller = controller]
set_abort_controller(e, controller) ==
    [e EXCEPT !.abort_registration = controller, !.abort_controller = controller]
set_trajectory_recorder(e, kind) ==
    [e EXCEPT !.trajectory_recorder = kind, !.journal = <<>>]

(* ---------------------- the cancellation primitive -------------------- *)

\* A registration is of one controller and shares its stop cell; its wait is
\* none (cancelled() not called), pending, notified (woken by cancel(), not
\* yet run), woken (completed after a notification) or ready (completed at
\* once, the stop cell being set when the wait began).
NewRegistration(controller) == [controller |-> controller, wait |-> "none"]

\* controller.subscribe() and registration.clone()
subscribe(a, controller) ==
    [a EXCEPT !.regs = Append(@, NewRegistration(controller))]
clone(a, i) ==
    [a EXCEPT !.regs = Append(@, NewRegistration(a.regs[i].controller))]

\* registration.cancelled(): the wait looks at the stop cell before it parks.
cancelled_future_parking(r, cancelledNow) == [r EXCEPT !.wait = "pending"]
cancelled_future(r, cancelledNow) ==
    [r EXCEPT !.wait = IF is_cancelled(r.controller, cancelledNow)
                       THEN "ready" ELSE "pending"]

\* controller.cancel(): the first call sets the stop cell and notifies the
\* parked waits of the controller's registrations; later calls find it set.
notify_waiters(regs, controller) ==
    [i \in DOMAIN regs |->
        IF regs[i].controller = controller /\ regs[i].wait = "pending"
        THEN [regs[i] EXCEPT !.wait = "notified"] ELSE regs[i]]
cancel(a, controller, cancelledNow) ==
    [a EXCEPT !.cancels = @ + 1,
              !.regs = IF is_cancelled(controller, cancelledNow) THEN @
                       ELSE notify_waiters(@, controller)]

(* ----------------------- snapshots and restore ------------------------ *)

\* Option<AgentConfig>
NoConfig == [some |-> FALSE, value |-> [max_steps |-> 0, tools |-> {}]]
SomeConfig(cfg) == [some |-> TRUE, value |-> cfg]

\* PersistedAgentContext::new (state.rs lines 34-48)
PersistedAgentContext(agent_type, config, conversation_history, execution_context, now) ==
    [ version |-> 1,
      agent_type |-> agent_type,
      saved_at |-> now,
      config |-> config,
      conversation_history |-> conversation_history,
      execution_context |-> execution_context ]

\* Agent::agent_type (lines 619-621)
agent_type == "coro_agent"

\* serde_json values
JNull == [j |-> "null"]
JString(s) == [j |-> "string", v |-> s]
JNumber(n) == [j |-> "number", v |-> n]
JBool(b) == [j |-> "bool", v |-> b]
JArray(a) == [j |-> "array", v |-> a]
JObject(o) == [j |-> "object", v |-> o]

\* #[serde(rename_all = "lowercase")] enum MessageRole
SerializeRole(r) ==
    CASE r = "System" -> "system" [] r = "User" -> "user"
      [] r = "Assistant" -> "assistant" [] r = "Tool" -> "tool"
DeserializeRole(s) ==
    CASE s = "system" -> "System" [] s = "user" -> "User"
      [] s = "assistant" -> "Assistant" [] s = "tool" -> "Tool"

\* #[serde(tag = "type", rename_all = "snake_case")] enum ContentBlock; the
\* tool input is not part of the model's blocks.
SerializeBlock(b) ==
    CASE b.type = "text" ->
            JObject([type |-> JString("text"), text |-> JString(b.content)])
      [] b.type = "tool_use" ->
            JObject([type |-> JString("tool_use"), id |-> JString(b.id),
                     name |-> JString(b.name)])
      [] b.type = "tool_result" ->
            JObject([type |-> JString("tool_result"), tool_use_id |-> JString(b.id),
                     is_error |-> JBool(b.is_error), content |-> JString(b.content)])
DeserializeBlock(j) ==
    CASE j.v.type.v = "text" -> TextBlock(j.v.text.v)
      [] j.v.type.v = "tool_use" -> ToolUse(j.v.id.v, j.v.name.v)
      [] j.v.type.v = "tool_result" ->
            ToolResult(j.v.tool_use_id.v, j.v.is_error.v, j.v.content.v)

\* #[serde(untagged)] enum MessageContent: a string is Text, an array is
\* MultiModal (the variants are tried in their order of declaration).
SerializeContent(m) ==
    IF ~m.multimodal THEN JString(m.text)
    ELSE JArray([i \in 1..Len(m.blocks) |-> SerializeBlock(m.blocks[i])])
DeserializeContent(role, j) ==
    IF j.j = "string" THEN Text(role, j.v)
    ELSE MultiModal(role, [i \in 1..Len(j.v) |-> DeserializeBlock(j.v[i])])

\* struct LlmMessage (metadata is None in every message the engine builds)
SerializeMessage(m) ==
    JObject([role |-> JString(SerializeRole(m.role)), content |-> SerializeContent(m),
             metadata |-> JNull])
DeserializeMessage(j) ==
    DeserializeContent(DeserializeRole(j.v.role.v), j.v.content)

\* struct AgentConfig
SerializeConfig(c) ==
    IF ~c.some THEN JNull
    ELSE JObject([max_steps |-> JNumber(c.value.max_steps),
                  tools |-> JArray(c.value.tools)])
DeserializeConfig(j) ==
    IF j.j = "null" THEN NoConfig
    ELSE SomeConfig([max_steps |-> j.v.max_steps.v, tools |-> j.v.tools.v])

\* Option<AgentExecutionContext>, a struct of strings and counters
SerializeContext(c) ==
    IF ~c.some THEN JNull
    ELSE JObject([original_goal |-> JString(c.original_goal),
                  current_task |-> JString(c.current_task),
                  max_steps |-> JNumber(c.max_steps),
                  current_step |-> JNumber(c.current_step),
                  token_usage |->
                      JObject([input_tokens |-> JNumber(c.token_usage.input_tokens),
                               output_tokens |-> JNumber(c.token_usage.output_tokens),
                               total_tokens |-> JNumber(c.token_usage.total_tokens)])])
DeserializeContext(j) ==
    IF j.j = "null" THEN NoContext
    ELSE [some |-> TRUE,
          original_goal |-> j.v.original_goal.v,
          current_task |-> j.v.current_task.v,
          max_steps |-> j.v.max_steps.v,
          current_step |-> j.v.current_step.v,
          token_usage |-> [input_tokens |-> j.v.token_usage.v.input_tokens.v,
                           output_tokens |-> j.v.token_usage.v.output_tokens.v,
                           total_tokens |-> j.v.token_usage.v.total_tokens.v]]

\* PersistedAgentContext::to_json / from_json (state.rs lines 51-58)
to_json(snapshot) ==
    JObject([version |-> JNumber(snapshot.version),
             agent_type |-> JString(snapshot.agent_type),
             saved_at |-> JString(snapshot.saved_at),
             config |-> SerializeConfig(snapshot.config),
             conversation_history |->
                 JArray([i \in 1..Len(snapshot.conversation_history) |->
                            SerializeMessage(snapshot.conversation_history[i])]),
             execution_context |-> SerializeContext(snapshot.execution_context)])
from_json(json) ==
    [ version |-> json.v.version.v,
      agent_type |-> json.v.agent_type.v,
      saved_at |-> json.v.saved_at.v,
      config |-> DeserializeConfig(json.v.config),
      conversation_history |->
          [i \in 1..Len(json.v.conversation_history.v) |->
              DeserializeMessage(json.v.conversation_history.v[i])],
      execution_context |-> DeserializeContext(json.v.execution_context) ]

\* export_context_snapshot (lines 100-107)
export_context_snapshot_without_context(e, now) ==
    PersistedAgentContext(agent_type, SomeConfig(e.config), e.conversation_history,
                          NoContext, now)
export_context_snapshot(e, now) ==
    PersistedAgentContext(agent_type, SomeConfig(e.config), e.conversation_history,
                          e.execution_context, now)

\* export_context_json (lines 110-113)
export_context_json(e, now) == to_json(export_context_snapshot(e, now))

\* restore_context_from_snapshot (lines 121-134)
restore_context_from_snapshot_if_some(e, snapshot) ==
    [e EXCEPT !.config = IF snapshot.config.some THEN snapshot.config.value ELSE @,
              !.conversation_history = snapshot.conversation_history,
              !.execution_context =
                  IF snapshot.execution_context.some
                  THEN snapshot.execution_context ELSE @]
restore_context_from_snapshot(e, snapshot) ==
    [e EXCEPT !.config = IF snapshot.config.some THEN snapshot.config.value ELSE @,
              !.conversation_history = snapshot.conversation_history,
              !.execution_context = snapshot.execution_context]

\* restore_context_from_json (lines 137-140)
restore_context_from_json(e, json) == restore_context_from_snapshot(e, from_json(json))

\* restore_from_history (lines 149-154)
restore_from_history_keeping_context(e, history) ==
    [e EXCEPT !.conversation_history = history]
restore_from_history_keeping_goal(e, history) ==
    [e EXCEPT !.conversation_history = history,
              !.execution_context =
                  IF @.some THEN [@ EXCEPT !.current_step = 0,
                                           !.token_usage = TokenUsageDefault]
                  ELSE @]
restore_from_history(e, history) ==
    [e EXCEPT !.conversation_history = history, !.execution_context = NoContext]

(* ------------------------ the trajectory recorder --------------------- *)

\* Option<T>
NoneOf(default) == [some |-> FALSE, value |-> default]
SomeOf(v) == [some |-> TRUE, value |-> v]

\* The position of the last entry of a type, 0 if there is none: the loop of
\* build_trajectory overwrites task and success at every match.
LastOfType(entries, type) ==
    LET at == {i \in DOMAIN entries : entries[i].type = type}
    IN  IF at = {} THEN 0 ELSE CHOOSE i \in at : \A j \in at : j <= i

\* build_trajectory (recorder.rs lines 157-198) over the cloned entries.  The
\* id and the times of the metadata come from the environment and are not
\* part of the model's document.
build_trajectory(entries) ==
    LET ts == LastOfType(entries, "task_start")
        tc == LastOfType(entries, "task_complete")
    IN  [metadata |->
            [version |-> "1.0",
             agent_type |-> "coro_agent",
             task |-> IF ts = 0 THEN NoneOf("") ELSE SomeOf(entries[ts].task),
             success |-> IF tc = 0 THEN NoneOf(FALSE) ELSE SomeOf(entries[tc].success),
             total_steps |-> Len(entries)],
         entries |-> entries]

\* What a path of the file system holds: nothing, something that cannot be
\* read as UTF-8 text (a directory, other bytes), or a text: no byte at all,
\* a JSON value, or bytes that are not JSON.
Absent == [kind |-> "absent"]
Unreadable == [kind |-> "unreadable"]
Empty == [kind |-> "text", json |-> [j |-> "empty"]]
Malformed == [kind |-> "text", json |-> [j |-> "malformed"]]
TextFile(json) == [kind |-> "text", json |-> json]

\* The fields of the metadata that come from the environment (the uuid of
\* build_trajectory and the timestamps of the entries) are not part of the
\* model's trajectory; in the document they are these values.
Uuid == "uuid"
Timestamp == "2024-01-01T00:00:00Z"

\* serde_json::to_string_pretty(&trajectory): every field of the two structs
\* is written, None as null.
SerializeEntry(x) ==
    JObject([entry_type |-> JString(x.type), step |-> JNumber(x.step),
             task |-> JString(x.task), success |-> JBool(x.success)])
SerializeTrajectory(t) ==
    JObject([metadata |->
                JObject([id |-> JString(Uuid),
                         started_at |-> JString(Timestamp),
                         completed_at |-> IF t.entries = <<>> THEN JNull
                                          ELSE JString(Timestamp),
                         version |-> JString(t.metadata.version),
                         agent_type |-> JString(t.metadata.agent_type),
                         task |-> IF t.metadata.task.some
                                  THEN JString(t.metadata.task.value) ELSE JNull,
                         success |-> IF t.metadata.success.some
                                     THEN JBool(t.metadata.success.value) ELSE JNull,
                         total_steps |-> JNumber(t.metadata.total_steps),
                         duration_ms |-> IF t.entries = <<>> THEN JNull
                                         ELSE JNumber(0)]),
             entries |-> JArray([i \in 1..Len(t.entries) |->
                                    SerializeEntry(t.entries[i])])])

\* The fields of the two structs in the order of their declaration.
TrajectoryFields == <<"metadata", "entries">>
MetadataFields ==
    <<"id", "started_at", "completed_at", "version", "agent_type", "task",
      "success", "total_steps", "duration_ms">>

\* The derived Deserialize of a struct takes a JSON object (visit_map) or a
\* JSON array holding one value for every field, in the order of the
\* declaration and no more (visit_seq, then the end of the array).
IsStruct(j, fields) ==
    \/ j.j = "object"
    \/ j.j = "array" /\ Len(j.v) = Len(fields)
StructFields(j, fields) ==
    IF j.j = "object" THEN j.v
    ELSE [key \in {fields[i] : i \in 1..Len(fields)} |->
             j.v[CHOOSE i \in 1..Len(fields) : fields[i] = key]]

\* What the derived Deserialize of a struct asks of a field: a field of
\* type T must be there with a value of T, a field of type Option<T> may be
\* missing (in an object) or null; keys the struct does not have are ignored.
IsField(o, key, type) == key \in DOMAIN o /\ o[key].j = type
IsOptionField(o, key, type) == key \in DOMAIN o => o[key].j \in {"null", type}
OptionField(o, key, default) ==
    IF key \in DOMAIN o /\ o[key].j # "null" THEN SomeOf(o[key].v)
    ELSE NoneOf(default)
\* DateTime<Utc> and usize / u64
IsDateTime(j) == j.j = "string" => j.v = Timestamp
IsUnsigned(j) == j.j = "number" => j.v >= 0

IsEntryJson(j) ==
    /\ j.j = "object"
    /\ IsField(j.v, "entry_type", "string") /\ j.v.entry_type.v \in EntryKinds
    /\ IsField(j.v, "step", "number") /\ IsUnsigned(j.v.step)
    /\ IsField(j.v, "task", "string")
    /\ IsField(j.v, "success", "bool")
DeserializeEntry(j) ==
    Entry(j.v.entry_type.v, j.v.step.v, j.v.task.v, j.v.success.v)

\* serde_json::from_str::<Trajectory>(&content) succeeds (Trajectory and
\* TrajectoryMetadata, lines 19-56).
IsMetadataJson(m) ==
    /\ IsField(m, "id", "string")
    /\ IsField(m, "started_at", "string") /\ IsDateTime(m.started_at)
    /\ IsOptionField(m, "completed_at", "string")
    /\ ("completed_at" \in DOMAIN m => IsDateTime(m.completed_at))
    /\ IsField(m, "version", "string")
    /\ IsField(m, "agent_type", "string")
    /\ IsOptionField(m, "task", "string")
    /\ IsOptionField(m, "success", "bool")
    /\ IsField(m, "total_steps", "number") /\ IsUnsigned(m.total_steps)
    /\ IsOptionField(m, "duration_ms", "number")
    /\ ("duration_ms" \in DOMAIN m => IsUnsigned(m.duration_ms))
IsTrajectoryJson(j) ==
    /\ IsStruct(j, TrajectoryFields)
    /\ LET t == StructFields(j, TrajectoryFields)
       IN  /\ "metadata" \in DOMAIN t
           /\ IsStruct(t.metadata, MetadataFields)
           /\ IsMetadataJson(StructFields(t.metadata, MetadataFields))
           /\ IsField(t, "entries", "array")
           /\ \A i \in 1..Len(t.entries.v) : IsEntryJson(t.entries.v[i])
DeserializeTrajectory(j) ==
    LET t == StructFields(j, TrajectoryFields)
        m == StructFields(t.metadata, MetadataFields)
    IN  [metadata |->
            [version |-> m.version.v,
             agent_type |-> m.agent_type.v,
             task |-> OptionField(m, "task", ""),
             success |-> OptionField(m, "success", FALSE),
             total_steps |-> m.total_steps.v],
         entries |-> [i \in 1..Len(t.entries.v) |-> DeserializeEntry(t.entries.v[i])]]

\* TrajectoryRecorder::load (lines 139-154): Err(LoadFailed { path }) for a
\* path that does not exist, the error of read_to_string passed on by `?`,
\* Err(InvalidFormat) for a text serde_json rejects, Ok(trajectory) otherwise.
load_any_failure_is_invalid_format(file, path) ==
    IF file.kind = "text" /\ IsTrajectoryJson(file.json)
    THEN [ok |-> TRUE, trajectory |-> DeserializeTrajectory(file.json)]
    ELSE [ok |-> FALSE, error |-> "InvalidFormat"]
load(file, path) ==
    IF file.kind = "absent" THEN [ok |-> FALSE, error |-> "LoadFailed", path |-> path]
    ELSE IF file.kind # "text" THEN [ok |-> FALSE, error |-> "Io"]
    ELSE IF ~IsTrajectoryJson(file.json) THEN [ok |-> FALSE, error |-> "InvalidFormat"]
    ELSE [ok |-> TRUE, trajectory |-> DeserializeTrajectory(file.json)]

\* The callers of the shared recorder, and where a caller is in its call:
\* "idle" outside a call, "save" in save() before build_trajectory has read
\* the entries, "write" with the serialized document in hand, "writing" with
\* the file created and the document not yet written to it.
Callers == {"a", "b"}
NoCall == [pc |-> "idle", pushed |-> 0, returned |-> 0, document |-> JNull,
           last |-> "none"]

\* TrajectoryRecorder::new (lines 59-66) and with_file (lines 70-77) on a
\* path that holds nothing yet.
with_file ==
    [entries |-> <<>>, auto_save |-> TRUE, file |-> Absent,
     callers |-> [c \in Callers |-> NoCall]]
new ==
    [entries |-> <<>>, auto_save |-> FALSE, file |-> Absent,
     callers |-> [c \in Callers |-> NoCall]]

\* entries.push(entry) under the write lock (lines 95-98)
push_replacing_last(entries, entry) ==
    IF entries = <<>> THEN <<entry>>
    ELSE [entries EXCEPT ![Len(entries)] = entry]
push(entries, entry) == Append(entries, entry)

\* record up to the end of its locked block (lines 94-99); without auto_save
\* the call returns Ok(()) right after it (lines 100-104).
record_push(r, c, entry) ==
    [r EXCEPT !.entries = push(@, entry),
              !.callers[c] =
                  IF r.auto_save THEN [@ EXCEPT !.pc = "save", !.pushed = @ + 1]
                  ELSE [@ EXCEPT !.pushed = @ + 1, !.returned = @ + 1, !.last = "Ok"]]

\* get_entries (lines 108-110), entry_count (lines 113-115)
get_entries(r) == r.entries
entry_count(r) == Len(r.entries)

\* save up to the serialized document (lines 118-126): build_trajectory
\* clones the entries under the read lock; nothing is locked after it.
save_build(r, c) ==
    [r EXCEPT !.callers[c] =
        [@ EXCEPT !.pc = "write",
                  !.document = SerializeTrajectory(build_trajectory(r.entries))]]

\* create_dir_all(parent).await? and the first half of
\* fs::write(path, json).await? (lines 128-133): the file is created, which
\* empties it, or the error is returned with the file as it was.
CreateOutcomes == {"ok", "failed"}
save_create(r, c, outcome) ==
    IF outcome = "ok"
    THEN [r EXCEPT !.file = Empty, !.callers[c].pc = "writing"]
    ELSE [r EXCEPT !.callers[c] =
             [@ EXCEPT !.pc = "idle", !.document = JNull,
                       !.returned = IF r.callers[c].pushed > @ THEN @ + 1 ELSE @,
                       !.last = "Err"]]

\* The second half of fs::write: the document is written from the start of
\* the file.  "ok" leaves the document; "mixed" is the write over what
\* another caller has written since the file was emptied, when that was
\* longer than the document: the call returns Ok and the file holds the
\* document followed by the rest of the other; "failed" is the write cut
\* short after some bytes, "refused" the write that fails before any byte is
\* written (a full disk, a file size limit) and leaves the file as it is:
\* empty, or with what another caller has written since; both return the
\* error.
WriteOutcomes == {"ok", "mixed", "failed", "refused"}
OutcomesOfWrite(r) == IF r.file = Empty THEN WriteOutcomes \ {"mixed"} ELSE WriteOutcomes
save_write(r, c, outcome) ==
    [r EXCEPT !.file = CASE outcome = "ok" -> TextFile(r.callers[c].document)
                         [] outcome = "refused" -> r.file
                         [] OTHER -> Malformed,
              !.callers[c] =
                  [@ EXCEPT !.pc = "idle", !.document = JNull,
                            !.returned = IF r.callers[c].pushed > @ THEN @ + 1 ELSE @,
                            !.last = IF outcome \in {"failed", "refused"}
                                     THEN "Err" ELSE "Ok"]]

\* clear (lines 200-204)
clear(r) == [r EXCEPT !.entries = <<>>]

(* --------------------- the Anthropic request builder ------------------ *)

\* ChatOptions::default(): no field set.
ChatOptionsDefault ==
    [max_tokens |-> NoneOf(0), temperature |-> NoneOf(0), stop |-> NoneOf(<<>>)]
DefaultMaxTokens == 4096
\* temperatures are counted in tenths: 0.5
DefaultTemperature == 5
Model == "claude-3-sonnet-20240229"

unwrap_or(o, default) == IF o.some THEN o.value ELSE default

\* The loop of build_request (lines 123-132): a System message sets the
\* system text if it has text and is left out of the conversation either way.
RECURSIVE SeparateSystem_first_wins(_, _, _)
SeparateSystem_first_wins(messages, system_message, conversation_messages) ==
    IF messages = <<>>
    THEN [system |-> system_message, messages |-> conversation_messages]
    ELSE LET message == Head(messages)
         IN  IF message.role = "System"
             THEN SeparateSystem_first_wins(Tail(messages),
                     IF get_text(message).some /\ ~system_message.some
                     THEN SomeOf(get_text(message).parts) ELSE system_message,
                     conversation_messages)
             ELSE SeparateSystem_first_wins(Tail(messages), system_message,
                                 Append(conversation_messages, message))
RECURSIVE SeparateSystem(_, _, _)
SeparateSystem(messages, system_message, conversation_messages) ==
    IF messages = <<>>
    THEN [system |-> system_message, messages |-> conversation_messages]
    ELSE LET message == Head(messages)
         IN  IF message.role = "System"
             THEN SeparateSystem(Tail(messages),
                     IF get_text(message).some
                     THEN SomeOf(get_text(message).parts) ELSE system_message,
                     conversation_messages)
             ELSE SeparateSystem(Tail(messages), system_message,
                                 Append(conversation_messages, message))

\* AnthropicClient::build_request (lines 111-148); a tool definition is its
\* function's name here.
build_request(messages, tools, options) ==
    LET o   == unwrap_or(options, ChatOptionsDefault)
        sep == SeparateSystem(messages, NoneOf(<<>>), <<>>)
    IN  [model |-> Model,
         max_tokens |-> unwrap_or(o.max_tokens, DefaultMaxTokens),
         temperature |-> unwrap_or(o.temperature, DefaultTemperature),
         system |-> sep.system,
         messages |-> sep.messages,
         tools |-> IF tools.some
                   THEN SomeOf([i \in 1..Len(tools.value) |-> tools.value[i].function])
                   ELSE NoneOf(<<>>),
         stop_sequences |-> o.stop]

(* ------------------------- the CLI's shared agent --------------------- *)

\* Arc<Mutex<Option<AgentCore>>>: who holds the mutex ("none" if free), the
\* slot, and the calls of execute_agent_task_with_context with where each is:
\* "start" before the call, "lock" at agent.lock().await, "creating" at the
\* constructor's await, "select" with task_future built and not yet polled,
\* "run" inside execute_task_with_context (raced by the select!), "done"
\* after the return.  A finished call has the result it
\* returned and the branch that produced it ("by").
\* The UI channel (broadcast::Sender<AppMessage>) is the messages sent on it
\* and its capacity; a call's receiver is the index of the message it reads
\* next (0 without a receiver), and started_at is the number of messages
\* sent before the call's task_future existed.
AppMessages == {"AgentExecutionInterrupted", "InteractiveUpdate"}
NoAgent == [some |-> FALSE, id |-> 0, abort_controller |-> 0,
            abort_registration |-> 0, tasks |-> <<>>]
NoCallYet == [pc |-> "start", result |-> "none", by |-> "none",
              next |-> 0, started_at |-> 0]
NoSessions ==
    [holder |-> 0, agent |-> NoAgent, created |-> 0, cancelled |-> {},
     sent |-> <<>>, capacity |-> 1,
     calls |-> [c \in 1..MaxSessions |-> NoCallYet]]

\* broadcast::Sender::send: the message is kept for the receivers there are;
\* without a receiver it is dropped.
send(cl, m) ==
    IF \E c \in 1..MaxSessions : cl.calls[c].next > 0
    THEN [cl EXCEPT !.sent = Append(@, m)]
    ELSE cl

\* broadcast::Receiver::recv for the receiver of call c: nothing yet, the
\* next message, or Lagged when the channel no longer holds it, with the
\* receiver moved to the oldest message kept.  The channel keeps as many
\* messages as its capacity rounded up to a power of two.  The sender the
\* call owns keeps the channel open, so Closed is not among the outcomes.
RECURSIVE next_power_of_two(_)
next_power_of_two(n) ==
    IF n <= 1 THEN 1 ELSE 2 * next_power_of_two((n + 1) \div 2)
recv(cl, c) ==
    LET next == cl.calls[c].next
        oldest == Len(cl.sent) - next_power_of_two(cl.capacity) + 1
    IN  IF next > Len(cl.sent) THEN [kind |-> "Pending"]
        ELSE IF next < oldest THEN [kind |-> "Lagged", next |-> oldest]
        ELSE [kind |-> "Ok", value |-> cl.sent[next], next |-> next + 1]

\* agent.lock().await completes when nobody holds the mutex.
lock_ready_always(cl) == TRUE
lock_ready(cl) == cl.holder = 0

\* ui_sender.subscribe() (line 87): the receiver sees the messages sent from
\* now on; AbortController::new() (line 101), then the wait for the lock
\* (line 104).
call(cl, c) ==
    [cl EXCEPT !.calls[c].pc = "lock", !.calls[c].next = Len(cl.sent) + 1]

\* execute_task_with_context entered on the agent of the slot: the task
\* joins the history the agent has.
enter_task(a, c) == [a EXCEPT !.tasks = Append(@, c)]

\* task_future and interrupt_future are built (lines 157-174): nothing of
\* the task has run yet.
task_future(cl, c) ==
    [cl EXCEPT !.calls[c].pc = "select", !.calls[c].started_at = Len(cl.sent)]

\* The first poll of task_future by the select! (lines 177-180): the call
\* is inside execute_task_with_context.
poll_task(cl, c) ==
    [cl EXCEPT !.agent = enter_task(@, c), !.calls[c].pc = "run"]

\* The guard is taken (line 104).  With an agent in the slot its controller
\* is replaced by the call's own (lines 146-151) and the futures are built;
\* without one the constructor is awaited (lines 107-143).
locked(cl, c) ==
    IF cl.agent.some
    THEN task_future([cl EXCEPT !.holder = c,
                                !.agent.abort_controller = c,
                                !.agent.abort_registration = c], c)
    ELSE [cl EXCEPT !.holder = c, !.calls[c].pc = "creating"]

\* The guard and the receiver are dropped when the function returns, by
\* any path.
returned(cl, c, result, by) ==
    [cl EXCEPT !.holder = IF @ = c THEN 0 ELSE @,
               !.calls[c] = [pc |-> "done", result |-> result, by |-> by,
                             next |-> 0, started_at |-> 0]]

\* new_with_output_and_registry(.., Some(abort_controller.clone())).await?
\* (lines 135-145): the agent is stored and the futures are built, or the
\* error is returned by `?` and the slot stays empty.
created(cl, c, ok) ==
    IF ok
    THEN task_future([cl EXCEPT !.agent = [some |-> TRUE, id |-> c,
                                           abort_controller |-> c,
                                           abort_registration |-> c,
                                           tasks |-> <<>>],
                                !.created = @ + 1], c)
    ELSE returned(cl, c, "Err", "constructor")

\* The select! (lines 177-184): the task's result, or the end of
\* interrupt_future, which drops the task future.
task_returned(cl, c, ok) ==
    returned(cl, c, IF ok THEN "Ok" ELSE "Err", "task_future")

\* Ok(AgentExecutionInterrupted): the call's controller is cancelled and the
\* error returned (lines 164-167, 181-183).
interrupted(cl, c) ==
    returned([cl EXCEPT !.cancelled = @ \cup {c}], c, "Err", "interrupt_future")

\* One turn of the loop of interrupt_future on a receive that is ready (lines
\* 161-173): the interruption, any other message (continue), or an error of
\* the receiver (break, then Ok(()) through the select!).
interrupt_future(cl, c) ==
    LET r == recv(cl, c)
    IN  CASE r.kind = "Ok" /\ r.value = "AgentExecutionInterrupted" ->
                 interrupted(cl, c)
          [] r.kind = "Ok" -> [cl EXCEPT !.calls[c].next = r.next]
          [] OTHER -> returned(cl, c, "Ok", "interrupt_future")

(* ------------------------ the CLI's output handler -------------------- *)

\* static SILENT_TOOLS
SILENT_TOOLS == {"sequentialthinking"}

is_silent_tool(tool_name) == tool_name \in SILENT_TOOLS

\* CliOutputHandler::new: active_tools is an empty map from execution_id to
\* the ToolExecutionInfo inserted for it.  `events` is the events emitted so
\* far, kept to state what the map should hold.
NoEvents == [active_tools |-> <<>>, events |-> <<>>]

ToolExecutionInfo(execution_id, tool_name) ==
    [execution_id |-> execution_id, tool_name |-> tool_name]

\* HashMap::insert and HashMap::remove on active_tools.
insert(active_tools, tool_info) ==
    [k \in DOMAIN active_tools \cup {tool_info.execution_id} |->
        IF k = tool_info.execution_id THEN tool_info ELSE active_tools[k]]
remove(active_tools, execution_id) ==
    [k \in DOMAIN active_tools \ {execution_id} |-> active_tools[k]]

\* CliOutputHandler::emit_event: the arms that touch active_tools.  What the arms print is
\* terminal output and not part of the handler.  Every other event leaves
\* the handler as it is.
CliOutputHandler_emit_event(h, event) ==
    LET seen == [h EXCEPT !.events = Append(@, event)]
    IN  CASE event.type = "ToolExecutionStarted" ->
                 [seen EXCEPT !.active_tools = insert(@, event.tool_info)]
          [] event.type = "ToolExecutionCompleted" ->
                 IF is_silent_tool(event.tool_info.tool_name) THEN seen
                 ELSE IF event.tool_info.execution_id \in DOMAIN h.active_tools
                 THEN [seen EXCEPT
                          !.active_tools = remove(@, event.tool_info.execution_id)]
                 ELSE seen
          [] OTHER -> seen

(* ------------------------------ the system ---------------------------- *)

\* The answers of the output sink and of the recorder's storage during one
\* action: whether the emissions are delivered, and the kinds of entry whose
\* save fails.  RecordedAt lists the kinds whose save an action taken at a
\* position can wait for to its end: the save the step is suspended at, and
\* the entries execute_task_with_context records outside its select!.  Every
\* save fails or succeeds on its own (recorder.rs 100-102, 118-136).
RecordedAt(e) ==
    CASE e.pc = "idle"  -> {"task_start"}
      [] e.pc = "save"  -> {e.saving, "step_complete", "error", "task_complete"}
      [] e.pc = "emit"  -> {"step_complete", "error", "task_complete"}
      [] OTHER          -> {"task_complete"}
Failing(e) ==
    IF e.trajectory_recorder # "auto" THEN {{}}
    ELSE SUBSET RecordedAt(e)
\* every emission is delivered
Inputs(e) == [emitOk : {TRUE}, failing : Failing(e)]
\* the emission of an action may fail
InputsE(e) == [emitOk : BOOLEAN, failing : Failing(e)]
AllEmitted(in) == [in EXCEPT !.emitOk = TRUE]

\* The step before its first poll and at the awaits of execute_step_inner, all
\* raced by the two select!s.
Suspended(e) == e.pc \in {"select", "llm", "confirm", "tool", "save", "emit"}

\* No stand-alone operation has been applied.
NoProbe == [op |-> "none"]

\* No registration has been derived and cancel() has not been called.
NoRegistrations == [regs |-> <<>>, cancels |-> 0]

Init ==
    /\ \E m \in 0..MaxSteps : eng = NewEngine(m, "c1")
    /\ cancelled = {}
    /\ shadow = NewEngine(0, "c1")
    /\ probe = NoProbe
    /\ abort = NoRegistrations
    /\ rec = new
    /\ cli = NoSessions
    /\ out = NoEvents

\* Agent::set_trajectory_recorder(&mut self, ..): whenever no task is running,
\* on an engine with or without a recorder.
SetTrajectoryRecorder ==
    /\ eng.pc = "idle"
    /\ \E k \in RecorderKinds : eng' = set_trajectory_recorder(eng, k)
    /\ UNCHANGED <<cancelled, shadow, probe, abort, rec, cli, out>>

\* AgentCore::set_abort_controller, between tasks
SetAbortController ==
    /\ eng.pc = "idle" /\ eng.abort_controller = "c1"
    /\ eng' = set_abort_controller(eng, "c2")
    /\ UNCHANGED <<cancelled, shadow, probe, abort, rec, cli, out>>

\* AgentCore::cancel (lines 162-164)
AgentCancel ==
    /\ eng.abort_controller \notin cancelled
    /\ cancelled' = cancelled \cup {eng.abort_controller}
    /\ UNCHANGED <<eng, shadow, probe, abort, rec, cli, out>>

\* cancel() on a controller the engine does not hold
ControllerCancel ==
    /\ \E c \in Controllers \ (cancelled \cup {eng.abort_controller}) :
            cancelled' = cancelled \cup {c}
    /\ UNCHANGED <<eng, shadow, probe, abort, rec, cli, out>>

\* Each step of the engine, on eng alone (paired = FALSE) or on eng and, with
\* every emission delivered, on shadow as well (paired = TRUE).
Shadowed(paired, after) == shadow' = IF paired THEN after ELSE shadow

StartTaskA(ins, paired) ==
    /\ eng.pc = "idle" /\ eng.invocations < MaxTasks
    /\ \E task \in Tasks(eng.invocations + 1), in \in ins :
        /\ eng' = StartTaskF(eng, task, in, cancelled)
        /\ Shadowed(paired, StartTaskF(shadow, task, AllEmitted(in), cancelled))
    /\ UNCHANGED <<cancelled, probe, abort, rec, cli, out>>

LoopTopA(ins, paired) ==
    /\ eng.pc = "loop"
    /\ \E comp \in CompressOutcomes(eng.conversation_history), in \in ins :
        /\ eng' = LoopTopF(eng, comp, in, cancelled)
        /\ Shadowed(paired, LoopTopF(shadow, comp, AllEmitted(in), cancelled))
    /\ UNCHANGED <<cancelled, probe, abort, rec, cli, out>>

BeginStepA(ins, paired) ==
    /\ eng.pc = "check" /\ eng.calls_total < MaxCalls
    /\ \E in \in ins :
        /\ eng' = BeginStepF(eng, in, cancelled)
        /\ Shadowed(paired, BeginStepF(shadow, AllEmitted(in), cancelled))
    /\ UNCHANGED <<cancelled, probe, abort, rec, cli, out>>

ExecuteStepA(paired) ==
    /\ eng.pc = "select"
    /\ eng' = execute_step_inner(eng)
    /\ Shadowed(paired, execute_step_inner(shadow))
    /\ UNCHANGED <<cancelled, probe, abort, rec, cli, out>>

LlmRespondA(ins, paired) ==
    /\ eng.pc = "llm"
    /\ \E r \in LlmResponses, in \in ins :
        /\ eng' = LlmRespondF(eng, r, in)
        /\ Shadowed(paired, LlmRespondF(shadow, r, AllEmitted(in)))
    /\ UNCHANGED <<cancelled, probe, abort, rec, cli, out>>

ConfirmRespondA(ins, paired) ==
    /\ eng.pc = "confirm"
    /\ \E d \in Decisions, in \in ins :
        /\ eng' = ConfirmRespondF(eng, d)
        /\ Shadowed(paired, ConfirmRespondF(shadow, d))
    /\ UNCHANGED <<cancelled, probe, abort, rec, cli, out>>

ToolRespondA(ins, paired) ==
    /\ eng.pc = "tool"
    /\ \E o \in ToolOutcomes(eng.tool_uses[eng.blk].name), in \in ins :
        /\ eng' = ToolRespondF(eng, o)
        /\ Shadowed(paired, ToolRespondF(shadow, o))
    /\ UNCHANGED <<cancelled, probe, abort, rec, cli, out>>

SaveRespondA(ins, paired) ==
    /\ eng.pc = "save"
    /\ \E in \in ins :
        /\ eng' = SaveRespondF(eng, in)
        /\ Shadowed(paired, SaveRespondF(shadow, AllEmitted(in)))
    /\ UNCHANGED <<cancelled, probe, abort, rec, cli, out>>

EmitRespondA(ins, paired) ==
    /\ eng.pc = "emit"
    /\ \E in \in ins :
        /\ eng' = EmitRespondF(eng, in)
        /\ Shadowed(paired, EmitRespondF(shadow, AllEmitted(in)))
    /\ UNCHANGED <<cancelled, probe, abort, rec, cli, out>>

InterruptA(ins, paired) ==
    /\ Suspended(eng) /\ is_cancelled(eng.cancel_reg, cancelled)
    /\ \E branch \in Branches(eng), in \in ins :
        /\ eng' = InterruptF(eng, branch, in)
        /\ Shadowed(paired, InterruptF(shadow, branch, AllEmitted(in)))
    /\ UNCHANGED <<cancelled, probe, abort, rec, cli, out>>

StartTask      == StartTaskA(Inputs(eng), FALSE)
LoopTop        == LoopTopA(Inputs(eng), FALSE)
BeginStep      == BeginStepA(Inputs(eng), FALSE)
ExecuteStep    == ExecuteStepA(FALSE)
LlmRespond     == LlmRespondA(Inputs(eng), FALSE)
ConfirmRespond == ConfirmRespondA(Inputs(eng), FALSE)
ToolRespond    == ToolRespondA(Inputs(eng), FALSE)
SaveRespond    == SaveRespondA(Inputs(eng), FALSE)
EmitRespond    == EmitRespondA(Inputs(eng), FALSE)
Interrupt      == InterruptA(Inputs(eng), FALSE)

\* The engine without a trajectory recorder, on the controller it was
\* constructed with.
Next ==
    \/ AgentCancel
    \/ StartTask
    \/ LoopTop
    \/ BeginStep
    \/ ExecuteStep
    \/ LlmRespond
    \/ ConfirmRespond
    \/ ToolRespond
    \/ EmitRespond
    \/ Interrupt

Spec == Init /\ [][Next]_vars

\* The engine to which an auto-saving trajectory recorder is attached, or
\* attached anew, between its tasks.
NextRec ==
    \/ SetTrajectoryRecorder
    \/ AgentCancel
    \/ StartTask
    \/ LoopTop
    \/ BeginStep
    \/ ExecuteStep
    \/ LlmRespond
    \/ ConfirmRespond
    \/ ToolRespond
    \/ SaveRespond
    \/ EmitRespond
    \/ Interrupt

SpecRec == Init /\ [][NextRec]_vars

\* The engine constructed for one step per task and given an auto-saving
\* trajectory recorder before its first task; it is given a further task while
\* the journal of the recorder is short.
InitNext ==
    /\ eng = set_trajectory_recorder(NewEngine(1, "c1"), "auto")
    /\ cancelled = {}
    /\ shadow = NewEngine(0, "c1")
    /\ probe = NoProbe
    /\ abort = NoRegistrations
    /\ rec = new
    /\ cli = NoSessions
    /\ out = NoEvents

StartNextTask == Len(eng.journal) <= MaxEntries /\ StartTask

NextNext ==
    \/ AgentCancel
    \/ StartNextTask
    \/ LoopTop
    \/ BeginStep
    \/ ExecuteStep
    \/ LlmRespond
    \/ ConfirmRespond
    \/ ToolRespond
    \/ SaveRespond
    \/ EmitRespond
    \/ Interrupt

SpecNext == InitNext /\ [][NextNext]_vars

\* The first task of an engine constructed for any number of steps, to which
\* an auto-saving trajectory recorder may be attached before the task; a
\* further step is begun while the journal of the recorder is short.
StartFirstTask == eng.invocations = 0 /\ StartTask
BeginRecordedStep == Len(eng.journal) <= MaxEntries /\ BeginStep

NextFirst ==
    \/ SetTrajectoryRecorder
    \/ AgentCancel
    \/ StartFirstTask
    \/ LoopTop
    \/ BeginRecordedStep
    \/ ExecuteStep
    \/ LlmRespond
    \/ ConfirmRespond
    \/ ToolRespond
    \/ SaveRespond
    \/ EmitRespond
    \/ Interrupt

SpecFirst == Init /\ [][NextFirst]_vars

\* The engine whose controller is replaced between tasks, as the interactive
\* CLI does for every task it gives to its one engine; the engine is
\* constructed for one step per task.
InitCtl ==
    /\ eng = NewEngine(1, "c1")
    /\ cancelled = {}
    /\ shadow = NewEngine(0, "c1")
    /\ probe = NoProbe
    /\ abort = NoRegistrations
    /\ rec = new
    /\ cli = NoSessions
    /\ out = NoEvents

NextCtl ==
    \/ SetAbortController
    \/ ControllerCancel
    \/ Next

SpecCtl == InitCtl /\ [][NextCtl]_vars

\* The engine beside its shadow: both are fed the same answers, but only the
\* engine's emissions can fail; the engine is constructed for one step per
\* task and given a further task after an invocation of few events.
InitE ==
    /\ eng = NewEngine(1, "c1")
    /\ cancelled = {}
    /\ shadow = eng
    /\ probe = NoProbe
    /\ abort = NoRegistrations
    /\ rec = new
    /\ cli = NoSessions
    /\ out = NoEvents

StartTaskE      == Len(eng.events) <= MaxEmitted /\ StartTaskA(InputsE(eng), TRUE)
LoopTopE        == LoopTopA(InputsE(eng), TRUE)
BeginStepE      == BeginStepA(InputsE(eng), TRUE)
ExecuteStepE    == ExecuteStepA(TRUE)
LlmRespondE     == LlmRespondA(InputsE(eng), TRUE)
ConfirmRespondE == ConfirmRespondA(InputsE(eng), TRUE)
ToolRespondE    == ToolRespondA(InputsE(eng), TRUE)
EmitRespondE    == EmitRespondA(InputsE(eng), TRUE)
InterruptE      == InterruptA(InputsE(eng), TRUE)

NextE ==
    \/ AgentCancel
    \/ StartTaskE
    \/ LoopTopE
    \/ BeginStepE
    \/ ExecuteStepE
    \/ LlmRespondE
    \/ ConfirmRespondE
    \/ ToolRespondE
    \/ EmitRespondE
    \/ InterruptE

SpecEmit == InitE /\ [][NextE]_vars

\* The operations a caller applies to an idle engine, and the simple trim,
\* each applied once to an engine whose history, context and configuration
\* are any of a small set (every history can be installed by
\* restore_from_history, every context by restore_context_from_snapshot).
Messages ==
    { Text("System", "system prompt"),
      Text("User", "t1"),
      MultiModal("Assistant", <<TextBlock("ok"), ToolUse(1, "bash")>>),
      MultiModal("Tool", <<ToolResult(1, TRUE, "Error: failed")>>) }
Histories(n) == UNION {[1..k -> Messages] : k \in 0..n}
Contexts ==
    { NoContext,
      EnterContext(NoContext, "t1", 1),
      [EnterContext(EnterContext(NoContext, "t1", 2), "t2", 2)
          EXCEPT !.current_step = 1,
                 !.token_usage = [input_tokens |-> 2, output_tokens |-> 1,
                                  total_tokens |-> 3]] }
Configs == { [max_steps |-> 1, tools |-> DefaultTools],
             [max_steps |-> 2, tools |-> {"task_done"}] }
Clock == {"2025-01-01T00:00:00Z"}
Constructed ==
    { NewEngine(1, "c1"),
      [NewEngine(2, "c2") EXCEPT !.trajectory_recorder = "auto"] }
OpsEngines ==
    { [c EXCEPT !.conversation_history = h, !.execution_context = x] :
        c \in Constructed, h \in Histories(MaxLen), x \in Contexts }
Targets(e) ==
    { e, NewEngine(MaxSteps, "c1"),
      [NewEngine(1, "c2") EXCEPT
          !.conversation_history = <<Text("User", "t2")>>,
          !.execution_context = EnterContext(NoContext, "t2", 1)] }
Snapshots ==
    { PersistedAgentContext(agent_type, cfg, h, x, now) :
        cfg \in {NoConfig} \cup {SomeConfig(c) : c \in Configs},
        h \in Histories(1), x \in Contexts, now \in Clock }

InitOps ==
    /\ eng \in OpsEngines
    /\ cancelled = {}
    /\ shadow = NewEngine(0, "c1")
    /\ probe = NoProbe
    /\ abort = NoRegistrations
    /\ rec = new
    /\ cli = NoSessions
    /\ out = NoEvents

\* fallback_trim_conversation_history(max_messages)
FallbackTrim ==
    /\ probe = NoProbe
    /\ \E max_messages \in 0..MaxLen :
        /\ eng' = [eng EXCEPT !.conversation_history =
                        fallback_trim_conversation_history(@, max_messages)]
        /\ probe' = [op |-> "trim", before |-> eng, max_messages |-> max_messages]
    /\ UNCHANGED <<cancelled, shadow, abort, rec, cli, out>>

\* export_context_json on the engine, restore_context_from_json on the same
\* engine or on another one, which is the engine looked at from then on
ExportRestore ==
    /\ probe = NoProbe
    /\ \E target \in Targets(eng), now \in Clock :
        /\ eng' = restore_context_from_json(target, export_context_json(eng, now))
        /\ probe' = [op |-> "round_trip", before |-> eng, target |-> target,
                     exported |-> export_context_snapshot(eng, now),
                     restored |-> from_json(export_context_json(eng, now))]
    /\ UNCHANGED <<cancelled, shadow, abort, rec, cli, out>>

\* restore_context_from_snapshot(snapshot)
Restore ==
    /\ probe = NoProbe
    /\ \E snapshot \in Snapshots :
        /\ eng' = restore_context_from_snapshot(eng, snapshot)
        /\ probe' = [op |-> "restore", before |-> eng, snapshot |-> snapshot]
    /\ UNCHANGED <<cancelled, shadow, abort, rec, cli, out>>

\* restore_from_history(history)
RestoreFromHistory ==
    /\ probe = NoProbe
    /\ \E history \in Histories(1) :
        /\ eng' = restore_from_history(eng, history)
        /\ probe' = [op |-> "restore_from_history", before |-> eng,
                     history |-> history]
    /\ UNCHANGED <<cancelled, shadow, abort, rec, cli, out>>

NextOps ==
    \/ FallbackTrim
    \/ ExportRestore
    \/ Restore
    \/ RestoreFromHistory

SpecOps == InitOps /\ [][NextOps]_vars

\* The controllers and their registrations by themselves: registrations are
\* subscribed and cloned, waits begin and complete, and cancel() is called,
\* in any order.  A notified wait is run by the scheduler (weak fairness).
InitAbort ==
    /\ eng = NewEngine(1, "c1")
    /\ cancelled = {}
    /\ shadow = NewEngine(0, "c1")
    /\ probe = NoProbe
    /\ abort = NoRegistrations
    /\ rec = new
    /\ cli = NoSessions
    /\ out = NoEvents

Subscribe ==
    /\ Len(abort.regs) < MaxRegs
    /\ \E c \in Controllers : abort' = subscribe(abort, c)
    /\ UNCHANGED <<eng, cancelled, shadow, probe, rec, cli, out>>

CloneRegistration ==
    /\ Len(abort.regs) < MaxRegs
    /\ \E i \in DOMAIN abort.regs : abort' = clone(abort, i)
    /\ UNCHANGED <<eng, cancelled, shadow, probe, rec, cli, out>>

Cancel ==
    /\ abort.cancels < MaxCancels
    /\ \E c \in Controllers :
        /\ abort' = cancel(abort, c, cancelled)
        /\ cancelled' = cancelled \cup {c}
    /\ UNCHANGED <<eng, shadow, probe, rec, cli, out>>

BeginWait ==
    /\ \E i \in DOMAIN abort.regs :
        /\ abort.regs[i].wait = "none"
        /\ abort' = [abort EXCEPT !.regs[i] = cancelled_future(@, cancelled)]
    /\ UNCHANGED <<eng, cancelled, shadow, probe, rec, cli, out>>

WaitWakes ==
    /\ \E i \in DOMAIN abort.regs :
        /\ abort.regs[i].wait = "notified"
        /\ abort' = [abort EXCEPT !.regs[i].wait = "woken"]
    /\ UNCHANGED <<eng, cancelled, shadow, probe, rec, cli, out>>

NextAbort ==
    \/ Subscribe
    \/ CloneRegistration
    \/ Cancel
    \/ BeginWait
    \/ WaitWakes

SpecAbort == InitAbort /\ [][NextAbort]_vars /\ WF_vars(WaitWakes)

(* ---------------- the recorder under concurrent callers --------------- *)

\* Two tasks share one recorder (an Arc<TrajectoryRecorder>); each await of
\* record is a point where the other task can run.  The k-th entry a caller
\* records differs from every other entry recorded.
JournalEntry(c, k) ==
    Entry(IF c = "a" THEN "tool_call" ELSE "tool_result", k, "", c = "b")

InitJournal ==
    /\ eng = NewEngine(0, "c1")
    /\ cancelled = {}
    /\ shadow = NewEngine(0, "c1")
    /\ probe = NoProbe
    /\ abort = NoRegistrations
    /\ rec \in {new, with_file}
    /\ cli = NoSessions
    /\ out = NoEvents

RecordPush ==
    /\ \E c \in Callers :
          /\ rec.callers[c].pc = "idle" /\ rec.callers[c].pushed < MaxRecords
          /\ rec' = record_push(rec, c, JournalEntry(c, rec.callers[c].pushed + 1))
    /\ UNCHANGED <<eng, cancelled, shadow, probe, abort, cli, out>>

SaveBuild ==
    /\ \E c \in Callers : rec.callers[c].pc = "save" /\ rec' = save_build(rec, c)
    /\ UNCHANGED <<eng, cancelled, shadow, probe, abort, cli, out>>

SaveCreate ==
    /\ \E c \in Callers, outcome \in CreateOutcomes :
          rec.callers[c].pc = "write" /\ rec' = save_create(rec, c, outcome)
    /\ UNCHANGED <<eng, cancelled, shadow, probe, abort, cli, out>>

SaveWrite ==
    /\ \E c \in Callers, outcome \in OutcomesOfWrite(rec) :
          rec.callers[c].pc = "writing" /\ rec' = save_write(rec, c, outcome)
    /\ UNCHANGED <<eng, cancelled, shadow, probe, abort, cli, out>>

NextJournal ==
    \/ RecordPush
    \/ SaveBuild
    \/ SaveCreate
    \/ SaveWrite

SpecJournal == InitJournal /\ [][NextJournal]_vars

\* The whole public interface that acts on a recorder: save() called on its
\* own (a no-op returning Ok without a file path, line 119) and clear().
CallSave ==
    /\ \E c \in Callers :
          /\ rec.callers[c].pc = "idle"
          /\ rec' = IF rec.auto_save THEN [rec EXCEPT !.callers[c].pc = "save"]
                    ELSE [rec EXCEPT !.callers[c].last = "Ok"]
    /\ UNCHANGED <<eng, cancelled, shadow, probe, abort, cli, out>>

Clear ==
    /\ rec' = clear(rec)
    /\ UNCHANGED <<eng, cancelled, shadow, probe, abort, cli, out>>

NextRecorder ==
    \/ RecordPush
    \/ SaveBuild
    \/ SaveCreate
    \/ SaveWrite
    \/ CallSave
    \/ Clear

SpecRecorder == InitJournal /\ [][NextRecorder]_vars

(* ------------------- stand-alone functions, applied once -------------- *)

\* What load is given: a path and what the file system holds there; a file
\* written by save holds the serialized trajectory of a journal.
Paths == {"trajectory.json", "runs/trajectory.json"}
JournalEntries ==
    { Entry("task_start", 0, "t1", FALSE), Entry("step_complete", 1, "", TRUE),
      Entry("task_complete", 1, "", TRUE) }
Journals == UNION {[1..k -> JournalEntries] : k \in 0..MaxLen}
\* A saved document, and documents made from it by hand.
SavedDocument ==
    SerializeTrajectory(build_trajectory(<<Entry("task_start", 0, "t1", FALSE)>>))
Dropped(o, key) == [k \in DOMAIN o \ {key} |-> o[k]]
Put(o, key, value) ==
    [k \in DOMAIN o \cup {key} |-> IF k = key THEN value ELSE o[k]]
WithMetadata(m) == JObject(Put(SavedDocument.v, "metadata", JObject(m)))
SavedMetadata == SavedDocument.v.metadata.v
\* A struct written as the array of its fields.
AsArray(o, fields) == JArray([i \in 1..Len(fields) |-> o[fields[i]]])
MetadataArray == AsArray(SavedMetadata, MetadataFields)
\* Documents save does not write and from_str accepts, each with the
\* trajectory it stands for: Option fields left out, keys the structs do not
\* have, a struct written as an array.
LenientFiles ==
    LET t == build_trajectory(<<Entry("task_start", 0, "t1", FALSE)>>)
    IN  { [file |-> TextFile(WithMetadata(Dropped(SavedMetadata, "task"))),
           trajectory |-> [t EXCEPT !.metadata.task = NoneOf("")]],
          [file |-> TextFile(WithMetadata(
                       Dropped(Dropped(Dropped(SavedMetadata, "success"),
                                       "completed_at"), "duration_ms"))),
           trajectory |-> t],
          [file |-> TextFile(WithMetadata(Put(SavedMetadata, "note", JString("x")))),
           trajectory |-> t],
          [file |-> TextFile(JObject(Put(SavedDocument.v, "note", JNumber(1)))),
           trajectory |-> t],
          [file |-> TextFile(WithMetadata(Put(SavedMetadata, "success", JBool(TRUE)))),
           trajectory |-> [t EXCEPT !.metadata.success = SomeOf(TRUE)]],
          [file |-> TextFile(AsArray(SavedDocument.v, TrajectoryFields)),
           trajectory |-> t],
          [file |-> TextFile(JObject(Put(SavedDocument.v, "metadata", MetadataArray))),
           trajectory |-> t],
          [file |-> TextFile(JArray(<<MetadataArray, SavedDocument.v.entries>>)),
           trajectory |-> t] }
\* What is no trajectory document, or no file at all.
OtherFiles ==
    { Absent, Unreadable, Empty, Malformed, TextFile(JString("trajectory")),
      TextFile(JObject([entries |-> JArray(<<>>)])),
      TextFile(JObject(Dropped(SavedDocument.v, "entries"))),
      TextFile(JObject(Put(SavedDocument.v, "metadata", JNull))),
      TextFile(JObject(Put(SavedDocument.v, "entries",
                           JArray(<<JString("task_start")>>)))),
      TextFile(WithMetadata(Dropped(SavedMetadata, "version"))),
      TextFile(WithMetadata(Dropped(SavedMetadata, "id"))),
      TextFile(WithMetadata(Put(SavedMetadata, "version", JNumber(1)))),
      TextFile(WithMetadata(Put(SavedMetadata, "agent_type", JNull))),
      TextFile(WithMetadata(Put(SavedMetadata, "task", JNumber(1)))),
      TextFile(WithMetadata(Put(SavedMetadata, "success", JString("yes")))),
      TextFile(WithMetadata(Put(SavedMetadata, "total_steps", JNumber(0 - 1)))),
      TextFile(WithMetadata(Put(SavedMetadata, "total_steps", JString("1")))),
      TextFile(WithMetadata(Put(SavedMetadata, "started_at", JString("yesterday")))),
      TextFile(JArray(<<>>)),
      TextFile(JArray(<<SavedDocument.v.metadata>>)),
      TextFile(JArray(<<SavedDocument.v.metadata, SavedDocument.v.entries, JNull>>)),
      TextFile(JArray(<<SavedDocument.v.entries, SavedDocument.v.metadata>>)),
      TextFile(JObject(Put(SavedDocument.v, "metadata",
                           JArray(SubSeq(MetadataArray.v, 1, 8))))),
      TextFile(JObject(Put(SavedDocument.v, "metadata",
                           JArray(Append(MetadataArray.v, JNull))))),
      TextFile(JObject(Put(SavedDocument.v, "metadata",
                           JArray([MetadataArray.v EXCEPT ![4] = JNumber(1)])))) }

\* What build_request is given.
RequestMessages ==
    { Text("System", "be brief"), Text("System", "be kind"),
      MultiModal("System", <<ToolResult(1, FALSE, "ok")>>),
      Text("User", "hi"),
      MultiModal("Assistant", <<TextBlock("plan"), ToolUse(1, "bash")>>) }
Conversations == UNION {[1..k -> RequestMessages] : k \in 0..MaxLen}
ChatOptionsGiven ==
    { NoneOf(ChatOptionsDefault), SomeOf(ChatOptionsDefault),
      SomeOf([max_tokens |-> SomeOf(2048), temperature |-> SomeOf(7),
              stop |-> SomeOf(<<"END">>)]) }
ToolsGiven == { NoneOf(<<>>), SomeOf(<<[function |-> "bash"]>>) }

InitFns ==
    /\ eng = NewEngine(0, "c1")
    /\ cancelled = {}
    /\ shadow = NewEngine(0, "c1")
    /\ probe = NoProbe
    /\ abort = NoRegistrations
    /\ rec = new
    /\ cli = NoSessions
    /\ out = NoEvents

LoadSaved ==
    /\ probe = NoProbe
    /\ \E journal \in Journals, path \in Paths :
          LET trajectory == build_trajectory(journal)
              file == TextFile(SerializeTrajectory(trajectory))
          IN  probe' = [op |-> "load", path |-> path, file |-> file,
                        saved |-> SomeOf(trajectory), out |-> load(file, path)]
    /\ UNCHANGED <<eng, cancelled, shadow, abort, rec, cli, out>>

LoadLenient ==
    /\ probe = NoProbe
    /\ \E given \in LenientFiles, path \in Paths :
          probe' = [op |-> "load", path |-> path, file |-> given.file,
                    saved |-> SomeOf(given.trajectory),
                    out |-> load(given.file, path)]
    /\ UNCHANGED <<eng, cancelled, shadow, abort, rec, cli, out>>

LoadOther ==
    /\ probe = NoProbe
    /\ \E file \in OtherFiles, path \in Paths :
          probe' = [op |-> "load", path |-> path, file |-> file,
                    saved |-> NoneOf(build_trajectory(<<>>)), out |-> load(file, path)]
    /\ UNCHANGED <<eng, cancelled, shadow, abort, rec, cli, out>>

BuildRequest ==
    /\ probe = NoProbe
    /\ \E messages \in Conversations, tools \in ToolsGiven, options \in ChatOptionsGiven :
          probe' = [op |-> "build_request", messages |-> messages, tools |-> tools,
                    options |-> options,
                    request |-> build_request(messages, tools, options)]
    /\ UNCHANGED <<eng, cancelled, shadow, abort, rec, cli, out>>

NextFns ==
    \/ LoadSaved
    \/ LoadLenient
    \/ LoadOther
    \/ BuildRequest

SpecFns == InitFns /\ [][NextFns]_vars

(* -------------------- concurrent task calls of the CLI ---------------- *)

InitCli ==
    /\ eng = NewEngine(0, "c1")
    /\ cancelled = {}
    /\ shadow = NewEngine(0, "c1")
    /\ probe = NoProbe
    /\ abort = NoRegistrations
    /\ rec = new
    /\ cli = [NoSessions EXCEPT !.capacity = MaxCapacity]
    /\ out = NoEvents

\* The calls are numbered in the order in which they are made.
CallTask ==
    /\ \E c \in 1..MaxSessions :
          /\ cli.calls[c].pc = "start"
          /\ \A d \in 1..(c - 1) : cli.calls[d].pc # "start"
          /\ cli' = call(cli, c)
    /\ UNCHANGED <<eng, cancelled, shadow, probe, abort, rec, out>>

LockAgent ==
    /\ \E c \in 1..MaxSessions :
          cli.calls[c].pc = "lock" /\ lock_ready(cli) /\ cli' = locked(cli, c)
    /\ UNCHANGED <<eng, cancelled, shadow, probe, abort, rec, out>>

CreateAgent ==
    /\ \E c \in 1..MaxSessions, ok \in BOOLEAN :
          cli.calls[c].pc = "creating" /\ cli' = created(cli, c, ok)
    /\ UNCHANGED <<eng, cancelled, shadow, probe, abort, rec, out>>

PollTask ==
    /\ \E c \in 1..MaxSessions :
          cli.calls[c].pc = "select" /\ cli' = poll_task(cli, c)
    /\ UNCHANGED <<eng, cancelled, shadow, probe, abort, rec, out>>

TaskReturns ==
    /\ \E c \in 1..MaxSessions, ok \in BOOLEAN :
          cli.calls[c].pc = "run" /\ cli' = task_returned(cli, c, ok)
    /\ UNCHANGED <<eng, cancelled, shadow, probe, abort, rec, out>>

\* interrupt_future is polled by the select! whether or not task_future has
\* been polled before it.
InterruptFuture ==
    /\ \E c \in 1..MaxSessions :
          /\ cli.calls[c].pc \in {"select", "run"}
          /\ recv(cli, c).kind # "Pending"
          /\ cli' = interrupt_future(cli, c)
    /\ UNCHANGED <<eng, cancelled, shadow, probe, abort, rec, out>>

Broadcast ==
    /\ \E m \in AppMessages :
          Len(cli.sent) < MaxBroadcasts /\ cli' = send(cli, m)
    /\ UNCHANGED <<eng, cancelled, shadow, probe, abort, rec, out>>

NextCli ==
    \/ CallTask
    \/ LockAgent
    \/ CreateAgent
    \/ PollTask
    \/ TaskReturns
    \/ InterruptFuture
    \/ Broadcast

SpecCli == InitCli /\ [][NextCli]_vars

(* ------------------- events given to the output handler --------------- *)

\* The events of the engine that carry a ToolExecutionInfo, and one that does
\* not.  An execution id names one tool call, so the events about one id
\* carry one tool name.
ToolNames == {"bash", "sequentialthinking"}
HandlerEvents ==
    {[type |-> t, tool_info |-> ToolExecutionInfo(i, n)] :
        t \in {"ToolExecutionStarted", "ToolExecutionCompleted"},
        i \in 1..MaxExecutions, n \in ToolNames}
    \cup {[type |-> "StepStarted"]}
SameCall(h, event) ==
    \A k \in 1..Len(h.events) :
        (h.events[k].type # "StepStarted" /\ event.type # "StepStarted"
            /\ h.events[k].tool_info.execution_id = event.tool_info.execution_id)
        => h.events[k].tool_info.tool_name = event.tool_info.tool_name

InitOut ==
    /\ eng = NewEngine(0, "c1")
    /\ cancelled = {}
    /\ shadow = NewEngine(0, "c1")
    /\ probe = NoProbe
    /\ abort = NoRegistrations
    /\ rec = new
    /\ cli = NoSessions
    /\ out = NoEvents

EmitEvent ==
    /\ \E event \in HandlerEvents :
          /\ Len(out.events) < MaxEvents
          /\ SameCall(out, event)
          /\ out' = CliOutputHandler_emit_event(out, event)
    /\ UNCHANGED <<eng, cancelled, shadow, probe, abort, rec, cli>>

NextOut == EmitEvent

SpecOut == InitOut /\ [][NextOut]_vars

(* --------------------- tasks around a restored history ---------------- *)

\* The caller restores a history between two invocations (a resumed session):
\* none, one that does not begin with a System message, and one that does.
RestoredHistories ==
    { <<>>,
      <<Text("User", "earlier")>>,
      <<SystemPrompt, Text("User", "earlier"), Text("Assistant", "reply")>> }

RestoreBetweenTasks ==
    /\ eng.pc = "idle"
    /\ \E history \in RestoredHistories :
          /\ eng' = restore_from_history(eng, history)
          /\ probe' = [op |-> "restore_from_history", history |-> history,
                       invocations |-> eng.invocations,
                       before |-> eng.execution_context]
    /\ UNCHANGED <<cancelled, shadow, abort, rec, cli, out>>

NextRestore ==
    \/ RestoreBetweenTasks
    \/ Next

SpecRestore == InitCtl /\ [][NextRestore]_vars

(* ------------------------------ observations -------------------------- *)

\* The invocation has returned to its caller.
Returned == eng.pc = "idle" /\ eng.result.kind # "none"

\* The events of the given types emitted by the current invocation.
EventsOf(types) == {i \in DOMAIN eng.events : eng.events[i].type \in types}
Completed   == EventsOf({"ExecutionCompleted"})
Interrupted == EventsOf({"ExecutionInterrupted"})

\* The result AgentExecution::failure("Execution interrupted", steps, ..).
IsInterruptedResult(r) ==
    r.kind = "Ok" /\ ~r.success /\ r.message = <<"Execution interrupted", 0, "">>

\* The message at position j is the first Assistant message after position i.
NextAssistant(h, i, j) ==
    /\ i < j /\ h[j].role = "Assistant"
    /\ \A k \in (i + 1)..(j - 1) : h[k].role # "Assistant"

\* A Tool message between positions i and j carries the result of tool-use id.
ResolvedBetween(h, i, j, id) ==
    \E k \in (i + 1)..(j - 1) :
        /\ h[k].role = "Tool" /\ h[k].multimodal
        /\ \E n \in DOMAIN h[k].blocks :
              h[k].blocks[n].type = "tool_result" /\ h[k].blocks[n].id = id

(* ------------------------------ the claims ---------------------------- *)

\* C1: every invocation that has returned emitted exactly one terminal event,
\* an ExecutionCompleted or an ExecutionInterrupted, never both, never neither.
C1_ExactlyOneTerminalEvent ==
    Returned => Cardinality(Completed) + Cardinality(Interrupted) = 1

\* C2: in the stored history, every tool-use id of an Assistant message has its
\* Tool result before the next Assistant message.
C2_NoDanglingToolUse ==
    LET h == eng.conversation_history
    IN  \A i \in DOMAIN h, j \in DOMAIN h :
            (h[i].role = "Assistant" /\ has_tool_use(h[i]) /\ NextAssistant(h, i, j))
            => \A n \in DOMAIN get_tool_uses(h[i]) :
                   ResolvedBetween(h, i, j, get_tool_uses(h[i])[n].id)

\* C3: an invocation that observed a cancellation (at the top check, at the
\* check after compression, or in a race with the step) returns the result
\* 'Execution interrupted' with exactly one ExecutionInterrupted event and no
\* ExecutionCompleted event, never an 'Error in step N' failure.
C3_CancellationEndsInterrupted ==
    (Returned /\ eng.cancel_seen # "")
    => /\ IsInterruptedResult(eng.result)
       /\ Cardinality(Interrupted) = 1
       /\ Completed = {}

\* C4: an invocation entered with the controller already cancelled and
\* max_steps >= 1 returns the interrupted result with step count 0, leaves
\* current_step at 0, emits ExecutionInterrupted and no ExecutionCompleted,
\* and makes no LLM call.
C4_CancelledAtEntry ==
    (Returned /\ eng.entry_cancelled /\ eng.config.max_steps >= 1)
    => /\ IsInterruptedResult(eng.result)
       /\ eng.result.steps = 0
       /\ eng.execution_context.current_step = 0
       /\ Cardinality(Interrupted) = 1
       /\ Completed = {}
       /\ eng.llm_calls = 0

\* The result is Ok(AgentExecution::success(..)).
IsSuccess(r) == r.kind = "Ok" /\ r.success

\* The step stays within the current invocation.
SameInvocation == eng'.invocations = eng.invocations

\* The step binds the tool result of the block being processed; Answer is what
\* the environment then knows of that block.
BlockAnswered ==
    /\ SameInvocation /\ eng.pc \in {"confirm", "tool"}
    /\ ~eng.blocks[Len(eng.blocks)].answered
    /\ eng'.blocks[Len(eng.blocks)].answered
Answer == eng'.blocks[Len(eng.blocks)]

\* The step appends exactly the message m to the history.
Pushes(m) == eng'.conversation_history = Append(eng.conversation_history, m)

\* The Tool-role message carrying an error result for tool-use id.
ErrorResultMessage(id, content) == MultiModal("Tool", <<ToolResult(id, TRUE, content)>>)

\* The step leaves the point at which the tool result of the block being
\* processed is about to pass its tool_result entry: the last emission about
\* the result on an engine without a recorder, the save of the entry on an
\* engine with one.
ResultRecorded ==
    /\ SameInvocation /\ eng' # eng
    /\ \/ /\ eng.trajectory_recorder = "none" /\ eng.pc = "emit"
          /\ eng.emitting \in {"tool_completed", "thinking"}
          /\ eng'.emitting # "thinking"
       \/ eng.pc = "save" /\ eng.saving = "tool_result"
\* The step is not the cancellation branch of a select!.
NotCancelled == eng'.cancel_seen = eng.cancel_seen

C5_Result ==
    /\ Returned => (IsSuccess(eng.result) <=> eng.done_step # 0)
    /\ (Returned /\ IsSuccess(eng.result)) =>
            /\ eng.result.steps = eng.done_step
            /\ Cardinality(Completed) = 1 /\ Interrupted = {}
            /\ \A i \in Completed : eng.events[i].flag
    /\ eng.done_step # 0 =>
            /\ eng.llm_calls = eng.done_step
            /\ LET last == eng.blocks[Len(eng.blocks)]
               IN  last.name = "task_done" /\ last.success /\ last.step = eng.done_step
C5_FailedTaskDone ==
    (ResultRecorded /\ NotCancelled /\ Answer.name = "task_done" /\ ~Answer.success)
    => /\ eng'.pc # "idle" /\ ~eng'.task_completed
       /\ Pushes(ErrorResultMessage(Answer.id, Answer.content))

\* C5: an invocation returns success at step k exactly when the tool
\* capability answered a task_done call of step k with a successful result;
\* the result then carries k and one ExecutionCompleted(success = true) is
\* emitted; after that answer no LLM call is made and no later block is
\* processed; an unsuccessful task_done leaves the run going and its result is
\* appended as a Tool message.
C5_SuccessIffTaskDone ==
    [] C5_Result /\ [][C5_FailedTaskDone]_vars

C6_Result ==
    (Returned /\ eng.done_step = 0 /\ eng.llm_failed_step = 0 /\ eng.cancel_seen = "")
    => /\ eng.result = ExecutionFailure(<<"Task incomplete after",
                                          eng.config.max_steps, "steps">>,
                                        eng.config.max_steps)
       /\ eng.step = eng.config.max_steps
       /\ eng.llm_calls = eng.config.max_steps
       /\ Cardinality(Completed) = 1 /\ Interrupted = {}
       /\ \A i \in Completed : ~eng.events[i].flag
\* The step that appends a text-only reply goes on to the emission of its
\* text or, the text being blank, to the loop condition; the step at which that
\* emission returns goes on to the loop condition.
C6_TextReply ==
    /\ (/\ SameInvocation
        /\ \E m \in {ResponseMessage(r, eng.ids_issued) : r \in LlmResponses} :
               ~has_tool_use(m) /\ Pushes(m))
       => /\ ~eng'.task_completed
          /\ \/ eng'.pc = "loop"
             \/ eng'.pc = "emit" /\ eng'.emitting = "text"
    /\ (/\ SameInvocation /\ eng' # eng /\ NotCancelled
        /\ eng.pc = "emit" /\ eng.emitting = "text")
       => eng'.pc = "loop" /\ ~eng'.task_completed

\* C6: an invocation in which no task_done succeeded, no LLM call failed and
\* no cancellation was observed returns, after exactly max_steps steps, the
\* failure 'Task incomplete after <max_steps> steps' with step count max_steps
\* and one ExecutionCompleted(success = false); a text-only reply never ends
\* the run.
C6_MaxStepsFailure ==
    [] C6_Result /\ [][C6_TextReply]_vars

\* Between the failed call and the return the step only hands the sink its
\* error message or, raced, its notice.
C7_Result ==
    /\ eng.llm_failed_step # 0 =>
            /\ \/ Returned
               \/ eng.pc = "emit" /\ eng.emitting \in {"llm_error", "interrupted"}
            /\ eng.llm_calls = eng.llm_failed_step
            /\ \A i \in DOMAIN eng.blocks : eng.blocks[i].step # eng.llm_failed_step
    /\ (Returned /\ eng.llm_failed_step # 0) =>
            eng.result = ExecutionFailure(<<"Error in step", eng.llm_failed_step,
                                            "llm error">>, eng.llm_failed_step)
C7_NothingAppended ==
    (SameInvocation /\ eng.llm_failed_step = 0 /\ eng'.llm_failed_step # 0)
    => eng'.conversation_history = eng.conversation_history

\* C7: when the LLM call of step N fails the invocation returns at once the
\* failure 'Error in step N: <error>' with step count N; the call is not
\* retried, no tool of step N is invoked and no Assistant message is appended.
C7_LlmFailureEndsRun ==
    [] C7_Result /\ [][C7_NothingAppended]_vars

\* ToolError: the tool capability answered the call of the block being
\* processed with an error.
ToolError ==
    ResultRecorded /\ NotCancelled /\ Answer.content = "Tool execution failed"
C8_StepGoesOn ==
    ToolError
    => /\ Pushes(ErrorResultMessage(Answer.id, "Tool execution failed"))
       /\ \/ eng'.pc = "loop"
          \/ eng'.pc = "emit" /\ eng'.emitting = "tool_started"
       /\ ~eng'.task_completed
ToolErrorInHistory ==
    \E i \in DOMAIN eng.conversation_history, id \in 1..eng.ids_issued :
        eng.conversation_history[i] = ErrorResultMessage(id, "Tool execution failed")
C8_Result ==
    (Returned /\ ToolErrorInHistory) => eng.result.kind = "Ok"

\* C8: an error of the tool capability does not abort the run: the Tool
\* message with is_error = true keyed to the tool-use id is appended, the step
\* and the loop go on, and every invocation that has the tool error in its
\* history, the ones that follow included, returns a result rather than an
\* error.
C8_ToolErrorNeverAborts ==
    [] C8_Result /\ [][C8_StepGoesOn]_vars

\* C9: a tool that requires confirmation is invoked only on an approval; on a
\* denial or a failed confirmation request the tool is not invoked and the
\* block gets the unsuccessful result 'Execution cancelled by user' keyed to
\* its id: it is the result the completed event reports and the step goes on
\* with, and the one appended as a Tool message with is_error = true when the
\* step goes past that event without being cancelled.
C9_Refused ==
    /\ (BlockAnswered /\ eng.pc = "confirm")
       => /\ Answer.decision \in {"denied", "failed"}
          /\ eng'.pc = "emit" /\ eng'.held = <<CancelledByUser>>
          /\ eng'.events = Append(eng.events,
                                  Ev("ToolExecutionCompleted", Answer.id, FALSE, eng.step))
    /\ (ResultRecorded /\ NotCancelled /\ Answer.decision \in {"denied", "failed"})
       => Pushes(ErrorResultMessage(Answer.id, "Execution cancelled by user"))
C9_Blocks ==
    \A i \in DOMAIN eng.blocks :
        LET b == eng.blocks[i]
        IN  /\ (b.name \in ConfirmTools /\ b.invoked) => b.decision = "approved"
            /\ b.decision \in {"denied", "failed"} =>
                    /\ ~b.invoked /\ b.answered /\ ~b.success
                    /\ b.content = "Execution cancelled by user"
C9_ConfirmationFailClosed ==
    [] C9_Blocks /\ [][C9_Refused]_vars

C9_Witness ==
    /\ Returned
    /\ \E i, j \in DOMAIN eng.blocks :
          /\ eng.blocks[i].decision = "denied"
          /\ eng.blocks[j].decision = "failed"

\* C10: an invocation whose emissions fail goes as the one whose emissions are
\* all delivered: same position, same history, same step count and, once
\* returned, same result; no emission failure becomes an error of the run.
C10_EmissionFailuresAbsorbed ==
    /\ eng.pc = shadow.pc
    /\ eng.conversation_history = shadow.conversation_history
    /\ eng.step = shadow.step
    /\ eng.task_completed = shadow.task_completed
    /\ eng.result = shadow.result
    /\ eng.fault = shadow.fault

C10_Witness ==
    /\ Returned /\ eng.emit_failed /\ ~shadow.emit_failed
    /\ IsSuccess(eng.result) /\ eng.invocations = 2
    /\ eng.blocks # <<>>
    /\ \E i \in DOMAIN eng.events : eng.events[i].type = "debug_message"

\* C11: when the compression manager answers with an error the iteration goes
\* on: the history becomes its simple trim to 50 messages, a CompressionFailed
\* event is emitted and the engine stands before its second cancellation
\* check, from which, if no cancellation is seen, it starts the same step and
\* makes its LLM call.
C11_Fallback ==
    (SameInvocation /\ eng.pc = "loop" /\ eng'.step = eng.step + 1
        /\ eng'.last_comp = "error")
    => /\ eng'.pc = "check"
       /\ eng'.conversation_history =
              fallback_trim_conversation_history(eng.conversation_history, 50)
       /\ eng'.events = Append(eng.events, Ev("CompressionFailed", 0, FALSE, eng'.step))
C11_Proceeds ==
    (SameInvocation /\ eng.pc = "check" /\ eng.last_comp = "error" /\ eng' # eng
        /\ ~is_cancelled(eng.cancel_reg, cancelled))
    => eng'.pc = "select" /\ eng'.step = eng.step
C11_Calls ==
    (SameInvocation /\ eng.pc = "select" /\ eng.last_comp = "error" /\ eng' # eng
        /\ eng'.cancel_seen = "")
    => /\ eng'.pc = "llm" /\ eng'.step = eng.step
       /\ eng'.llm_calls = eng.llm_calls + 1
C11_CompressionFailureAbsorbed ==
    [][C11_Fallback]_vars /\ [][C11_Proceeds]_vars /\ [][C11_Calls]_vars

C11_Witness ==
    eng.pc = "llm" /\ eng.last_comp = "error" /\ eng.step = 2

\* The operation the probe is about, seen from the state after it.
TrimIn == probe.before.conversation_history
TrimOut == eng.conversation_history
LeadingSystem(h) == Len(h) > 0 /\ h[1].role = "System"
\* The output but for the leading System message it kept.
TrimRest == IF LeadingSystem(TrimIn) THEN Tail(TrimOut) ELSE TrimOut
IsSuffix(t, h) == Len(t) <= Len(h) /\ t = SubSeq(h, Len(h) - Len(t) + 1, Len(h))
TrimKeeps ==
    /\ LeadingSystem(TrimIn) => Len(TrimOut) > 0 /\ TrimOut[1] = TrimIn[1]
    /\ IsSuffix(TrimRest, TrimIn)
    /\ Len(TrimIn) <= probe.max_messages => TrimOut = TrimIn

\* C12 (as claimed): the simple trim returns at most max_messages messages,
\* for every max_messages, keeps a leading System message, keeps after it the
\* most recent messages in their order, and returns a short history unchanged.
C12_TrimContract ==
    probe.op = "trim" => Len(TrimOut) <= probe.max_messages /\ TrimKeeps

\* C12 (amended): the same for max_messages >= 1; with max_messages = 0 a
\* history that begins with a System message is trimmed to that one message,
\* and any other history to the empty one.
C12_TrimContractFromOne ==
    probe.op = "trim" =>
        /\ TrimKeeps
        /\ probe.max_messages >= 1 => Len(TrimOut) <= probe.max_messages
        /\ probe.max_messages = 0 =>
              TrimOut = IF LeadingSystem(TrimIn) THEN <<TrimIn[1]>> ELSE <<>>

C12_Witness ==
    /\ probe.op = "trim" /\ probe.max_messages = 2 /\ Len(TrimIn) = 3
    /\ LeadingSystem(TrimIn) /\ TrimOut = <<TrimIn[1], TrimIn[3]>>
    /\ TrimIn[2] # TrimIn[3]

\* C13: a snapshot exported from an engine, serialised, deserialised and
\* restored on that engine or on another one leaves the restored engine with
\* the conversation history and the execution context the exporting engine
\* had; the deserialised snapshot has the version and agent type exported.
C13_RoundTrip ==
    probe.op = "round_trip" =>
        /\ eng.conversation_history = probe.before.conversation_history
        /\ eng.execution_context = probe.before.execution_context
        /\ probe.restored.version = probe.exported.version
        /\ probe.restored.agent_type = probe.exported.agent_type

C13_Witness ==
    /\ probe.op = "round_trip" /\ probe.target # probe.before
    /\ probe.target.conversation_history # probe.before.conversation_history
    /\ probe.before.execution_context.some
    /\ probe.before.execution_context.token_usage.total_tokens > 0
    /\ Len(probe.before.conversation_history) = MaxLen
    /\ \E i \in 1..MaxLen : has_tool_use(probe.before.conversation_history[i])
    /\ eng.conversation_history = probe.before.conversation_history
    /\ probe.restored.version = 1 /\ probe.restored.agent_type = "coro_agent"

\* C14: restore_context_from_snapshot takes the snapshot's configuration when
\* there is one and keeps the engine's otherwise, takes the snapshot's history
\* and execution context in every case (none included), and leaves the
\* controller, its registration, the recorder and the tool executor alone.
C14_RestoreFrame ==
    probe.op = "restore" =>
        /\ eng.config = IF probe.snapshot.config.some
                        THEN probe.snapshot.config.value ELSE probe.before.config
        /\ eng.conversation_history = probe.snapshot.conversation_history
        /\ eng.execution_context = probe.snapshot.execution_context
        /\ eng.abort_controller = probe.before.abort_controller
        /\ eng.abort_registration = probe.before.abort_registration
        /\ eng.trajectory_recorder = probe.before.trajectory_recorder
        /\ eng.journal = probe.before.journal
        /\ eng.tool_executor = probe.before.tool_executor

C14_Witness ==
    /\ probe.op = "restore"
    /\ probe.before.execution_context.some /\ ~eng.execution_context.some
    /\ probe.snapshot.config.some /\ eng.config # probe.before.config
    /\ eng.tool_executor # eng.config.tools
    /\ probe.before.conversation_history # <<>> /\ eng.conversation_history = <<>>
    /\ eng.trajectory_recorder = "auto"

\* C15: restore_from_history installs exactly the given messages, leaves the
\* engine without an execution context whatever it had, and keeps the
\* configuration.
C15_RestoreFromHistory ==
    probe.op = "restore_from_history" =>
        /\ eng.conversation_history = probe.history
        /\ eng.execution_context = NoContext
        /\ eng.config = probe.before.config

C15_Witness ==
    /\ probe.op = "restore_from_history"
    /\ probe.before.execution_context.some
    /\ probe.before.execution_context.current_step > 0
    /\ Len(probe.before.conversation_history) > Len(probe.history)
    /\ Len(eng.conversation_history) = 1 /\ ~eng.execution_context.some

\* A step that enters an invocation.
Enters == eng'.invocations = eng.invocations + 1
IsPrefix(s, t) == Len(s) <= Len(t) /\ s = SubSeq(t, 1, Len(s))

\* C16: once a task was given, the execution context's original_goal is the
\* text of the first task and its current_task the text of the task given
\* last; entering an invocation leaves current_step at 0 and the history the
\* engine had as a prefix of the history it has.
C16_Goal ==
    eng.invocations >= 1 =>
        /\ eng.execution_context.some
        /\ eng.execution_context.original_goal \in Tasks(1)
        /\ eng.execution_context.current_task = eng.task
C16_Entry ==
    Enters =>
        /\ eng'.task \in Tasks(eng'.invocations)
        /\ eng'.execution_context.current_step = 0
        /\ IsPrefix(eng.conversation_history, eng'.conversation_history)
C16_OriginalGoalPreserved == []C16_Goal /\ [][C16_Entry]_vars

C16_Witness ==
    /\ eng.invocations = 2 /\ eng.pc = "llm"
    /\ eng.execution_context.original_goal = "t1"
    /\ eng.execution_context.current_task = "t2"
    /\ eng.execution_context.current_step = 0
    /\ \E i \in 1..Len(eng.conversation_history) :
            eng.conversation_history[i] = UserMessage("t1")

\* C20: no step lowers a token counter of the execution context; the step that
\* takes an LLM response reporting usage adds its prompt, completion and total
\* counts to the three counters, and the step that takes a response without
\* usage, or an error, leaves them as they were.
TokenUsage(e) == e.execution_context.token_usage
C20_Monotone ==
    /\ TokenUsage(eng').input_tokens >= TokenUsage(eng).input_tokens
    /\ TokenUsage(eng').output_tokens >= TokenUsage(eng).output_tokens
    /\ TokenUsage(eng').total_tokens >= TokenUsage(eng).total_tokens
C20_Adds ==
    (eng.pc = "llm" /\ eng'.reported # "") =>
        LET d == IF eng'.reported = "usage" THEN Usage
                 ELSE [prompt_tokens |-> 0, completion_tokens |-> 0, total_tokens |-> 0]
        IN  /\ TokenUsage(eng').input_tokens = TokenUsage(eng).input_tokens + d.prompt_tokens
            /\ TokenUsage(eng').output_tokens =
                    TokenUsage(eng).output_tokens + d.completion_tokens
            /\ TokenUsage(eng').total_tokens = TokenUsage(eng).total_tokens + d.total_tokens
C20_TokenCountersGrow == [][C20_Monotone]_vars /\ [][C20_Adds]_vars

C20_Witness ==
    /\ eng.invocations = 2 /\ eng.reported = "usage"
    /\ TokenUsage(eng) = [input_tokens |-> 4, output_tokens |-> 2, total_tokens |-> 6]

\* C18: the engine's registration is always one of the controller it holds,
\* and so is the registration of its running invocation; an invocation sees a
\* cancellation only when the controller the engine holds is cancelled (the
\* controller it held before a swap does not count), and with that controller
\* cancelled the next check of the loop ends the invocation as interrupted.
C18_Registration ==
    /\ eng.abort_registration = eng.abort_controller
    /\ eng.pc # "idle" => eng.cancel_reg = eng.abort_controller
C18_OnlyOwn ==
    (eng.cancel_seen = "" /\ eng'.cancel_seen # "") => eng.abort_controller \in cancelled
C18_Seen ==
    (SameInvocation /\ eng.abort_controller \in cancelled
        /\ \/ eng.pc = "loop" /\ eng'.step = eng.step + 1
           \/ eng.pc = "check" /\ eng' # eng)
    => /\ eng'.cancel_seen \in {"top", "post"}
       /\ IsInterruptedResult(eng'.result)
       /\ eng'.llm_calls = eng.llm_calls
C18_ControllerSwap ==
    []C18_Registration /\ [][C18_OnlyOwn]_vars /\ [][C18_Seen]_vars

C18_Witness ==
    /\ eng.abort_controller = "c2" /\ eng.cancel_reg = "c2"
    /\ "c1" \in cancelled /\ "c2" \notin cancelled
    /\ eng.pc = "llm" /\ eng.cancel_seen = ""

\* The i-th registration's wait has begun and not completed; has completed.
Waiting(i) == i \in DOMAIN abort.regs /\ abort.regs[i].wait \in {"pending", "notified"}
WaitDone(i) == i \in DOMAIN abort.regs /\ abort.regs[i].wait \in {"woken", "ready"}
OfCancelled(i) == i \in DOMAIN abort.regs /\ is_cancelled(abort.regs[i].controller, cancelled)

\* C17: a cancelled controller stays cancelled; a cancel() on a controller
\* already cancelled changes neither the cancelled controllers nor any
\* registration; no wait of a registration of a cancelled controller is left
\* parked, whether it began before or after the cancel, and every wait of such
\* a registration completes.
C17_Irreversible == cancelled \subseteq cancelled'
C17_Idempotent ==
    (abort'.cancels = abort.cancels + 1 /\ cancelled' = cancelled)
    => abort'.regs = abort.regs
C17_NotMissed ==
    \A i \in DOMAIN abort.regs : OfCancelled(i) => abort.regs[i].wait # "pending"
C17_Completes ==
    \A i \in 1..MaxRegs : (Waiting(i) /\ OfCancelled(i)) ~> WaitDone(i)
C17_CancelOnceForAll ==
    /\ [][C17_Irreversible]_vars /\ [][C17_Idempotent]_vars
    /\ []C17_NotMissed /\ C17_Completes

C17_Witness ==
    /\ abort.cancels = 2 /\ cancelled = {"c1"}
    /\ \E i, j \in DOMAIN abort.regs :
        /\ abort.regs[i].controller = "c1" /\ abort.regs[i].wait = "woken"
        /\ abort.regs[j].controller = "c1" /\ abort.regs[j].wait = "ready"

\* C19: an invocation that saw a cancellation has not abandoned a tool
\* invocation it had begun: every block for which the tool capability was
\* invoked has had its result taken by the engine when the invocation returns.
C19_InFlightToolNotAborted ==
    (Returned /\ eng.cancel_seen # "")
    => \A i \in DOMAIN eng.blocks : eng.blocks[i].invoked => eng.blocks[i].answered

\* The tool-use ids of a message, in block order (none for a text message).
ToolUseIds(m) == [n \in 1..Len(get_tool_uses(m)) |-> get_tool_uses(m)[n].id]
\* The ids an Assistant message at the end of the history leaves to repair.
OpenIds(h) ==
    IF Len(h) > 0 /\ h[Len(h)].role = "Assistant" THEN ToolUseIds(h[Len(h)]) ELSE <<>>
\* The Tool-role message of one error result for the id.
IsErrorResultFor(m, id) ==
    /\ m.role = "Tool" /\ m.multimodal /\ Len(m.blocks) = 1
    /\ m.blocks[1].type = "tool_result" /\ m.blocks[1].id = id /\ m.blocks[1].is_error

\* C28: the entry of an invocation appends to the stored history (the system
\* prompt first, if the history was empty) one Tool-role error result per
\* tool-use block of a last Assistant message, in block order, and then the
\* User message of the task; after any other last message it appends the
\* User message alone.
C28_Repairs ==
    (Enters /\ eng'.pc = "loop") =>
        LET h    == IF eng.conversation_history = <<>> THEN <<SystemPrompt>>
                    ELSE eng.conversation_history
            ids  == OpenIds(h)
            now  == eng'.conversation_history
        IN  /\ Len(now) = Len(h) + Len(ids) + 1
            /\ SubSeq(now, 1, Len(h)) = h
            /\ \A n \in 1..Len(ids) : IsErrorResultFor(now[Len(h) + n], ids[n])
            /\ now[Len(now)] = UserMessage(eng'.task)
C28_EntryRepair == [][C28_Repairs]_vars

C28_Witness ==
    LET h == eng.conversation_history
    IN  /\ eng.invocations = 2 /\ eng.pc = "loop" /\ Len(h) >= 4
        /\ Len(ToolUseIds(h[Len(h) - 3])) = 2 /\ h[Len(h) - 3].role = "Assistant"
        /\ IsErrorResultFor(h[Len(h) - 2], ToolUseIds(h[Len(h) - 3])[1])
        /\ IsErrorResultFor(h[Len(h) - 1], ToolUseIds(h[Len(h) - 3])[2])
        /\ h[Len(h)] = UserMessage("t2")

\* The Assistant message of the running step: the last one of the history.
StepMessageAt(h) ==
    CHOOSE p \in 0..Len(h) :
        /\ p > 0 => h[p].role = "Assistant"
        /\ \A q \in (p + 1)..Len(h) : h[q].role # "Assistant"
\* The ids of the model's tool-use blocks, in the order the model gave them.
ModelOrder(m) ==
    LET u == SelectSeq(m.blocks, LAMBDA b : b.type = "tool_use")
    IN  [n \in 1..Len(u) |-> u[n].id]
\* Positions of the events of a type about a tool-use id.
EventsAbout(ev, type, id) == {i \in DOMAIN ev : ev[i].type = type /\ ev[i].id = id}
\* A tool-use block is being worked on: its started event is with the sink, it
\* waits for its confirmation or its tool, or its completed event or thought is
\* with the sink.
Starting(e) == e.pc = "emit" /\ e.emitting = "tool_started"
Finishing(e) == e.pc = "emit" /\ e.emitting \in {"tool_completed", "thinking"}
InBlock(e) == e.pc \in {"confirm", "tool"} \/ Starting(e) \/ Finishing(e)

\* C29: the blocks of a step are worked through one at a time in the model's
\* order.  While a block is open every earlier block of the step has its
\* result; when the next block starts, the block before it has been started,
\* confirmed where needed, invoked unless refused, completed, and answered
\* in the history, in that order; and when a step ends without completing the
\* task, the history ends with the Assistant message and one Tool-role result
\* per block, ids in the model's order.
C29_OneOpen ==
    InBlock(eng) =>
        LET h   == eng.conversation_history
            p   == StepMessageAt(h)
            ids == ModelOrder(h[p])
            \* blocks of the step the environment has seen a call for
            seen == IF Starting(eng) THEN eng.blk - 1 ELSE eng.blk
        IN  /\ p > 0 /\ eng.blk \in 1..Len(ids)
            /\ eng.tool_uses[eng.blk].id = ids[eng.blk]
            /\ Len(h) = p + eng.blk - 1
            /\ Len(eng.blocks) >= seen
            /\ \A i \in DOMAIN eng.blocks :
                  eng.blocks[i].id = ids[eng.blk] =>
                      /\ ~Starting(eng) /\ i = Len(eng.blocks)
                      /\ eng.blocks[i].answered <=> Finishing(eng)
                      /\ eng.pc = "confirm" => ~eng.blocks[i].invoked
            /\ ~Starting(eng) => eng.blocks[Len(eng.blocks)].id = ids[eng.blk]
            /\ \A n \in 1..(eng.blk - 1) :
                  /\ h[p + n].role = "Tool"
                  /\ h[p + n].blocks[1].id = ids[n]
                  /\ eng.blocks[Len(eng.blocks) - seen + n].id = ids[n]
                  /\ eng.blocks[Len(eng.blocks) - seen + n].answered
C29_NextBlock ==
    (InBlock(eng) /\ InBlock(eng') /\ eng'.blk = eng.blk + 1) =>
        LET prev == eng.blocks[Len(eng.blocks)]
            nxt  == eng'.tool_uses[eng'.blk]
            ev   == eng'.events
        IN  /\ Finishing(eng) /\ Starting(eng')
            /\ prev.id = eng.tool_uses[eng.blk].id
            /\ prev.answered /\ (prev.invoked \/ prev.decision \in {"denied", "failed"})
            /\ ev[Len(ev)] = Ev("ToolExecutionStarted", nxt.id, FALSE, eng.step)
            /\ EventsAbout(eng.events, "ToolExecutionStarted", nxt.id) = {}
            /\ \E b \in EventsAbout(ev, "ToolExecutionStarted", prev.id),
                  c \in EventsAbout(ev, "ToolExecutionCompleted", prev.id) :
                  b < c /\ c < Len(ev)
            /\ Len(eng'.conversation_history) = Len(eng.conversation_history) + 1
            /\ eng'.conversation_history[Len(eng'.conversation_history)].blocks[1].id
                  = prev.id
C29_StepEnd ==
    (InBlock(eng) /\ eng'.pc = "loop" /\ ~eng'.task_completed) =>
        LET h   == eng'.conversation_history
            p   == StepMessageAt(h)
            ids == ModelOrder(h[p])
        IN  /\ p > 0 /\ Len(h) = p + Len(ids)
            /\ \A n \in 1..Len(ids) :
                  /\ h[p + n].role = "Tool" /\ Len(h[p + n].blocks) = 1
                  /\ h[p + n].blocks[1].type = "tool_result"
                  /\ h[p + n].blocks[1].id = ids[n]
C29_BlocksInModelOrder ==
    []C29_OneOpen /\ [][C29_NextBlock]_vars /\ [][C29_StepEnd]_vars

\* A step of two blocks has ended without completing the task: the refused
\* bash and the unsuccessful task_done are answered in that order.
C29_Witness ==
    LET h == eng.conversation_history
    IN  /\ eng.pc = "loop" /\ ~eng.task_completed /\ Len(h) >= 3
        /\ h[Len(h) - 2].role = "Assistant" /\ Len(ModelOrder(h[Len(h) - 2])) = 2
        /\ h[Len(h) - 1].role = "Tool" /\ h[Len(h)].role = "Tool"
        /\ h[Len(h) - 1].blocks[1].id = ModelOrder(h[Len(h) - 2])[1]
        /\ h[Len(h)].blocks[1].id = ModelOrder(h[Len(h) - 2])[2]
        /\ Len(eng.blocks) >= 2 /\ eng.blocks[Len(eng.blocks)].answered

\* C30: a step makes one LLM call, whether or not its assistant message
\* carries tool-use blocks: while an invocation runs, the calls it has made
\* number the steps it has begun (one less between `step += 1` and the call);
\* so the calls of an invocation and the step count of its result never
\* exceed max_steps.
C30_PerStep ==
    eng.pc # "idle" =>
        /\ eng.llm_calls \in {eng.step - 1, eng.step}
        /\ eng.pc \in {"check", "select"} => eng.llm_calls = eng.step - 1
        /\ (eng.pc \in {"loop", "llm", "confirm", "tool"}
               \/ (eng.pc = "emit" /\ eng.emitting # "interrupted"))
           => eng.llm_calls = eng.step
C30_Bounded ==
    /\ eng.llm_calls <= eng.config.max_steps
    /\ eng.step <= eng.config.max_steps
    /\ (Returned /\ eng.result.kind = "Ok") => eng.result.steps <= eng.config.max_steps
C30_OneLlmCallPerStep == C30_PerStep /\ C30_Bounded

\* An invocation used all its steps, tool-use blocks among them.
C30_Witness ==
    /\ Returned /\ eng.result.kind = "Ok" /\ eng.config.max_steps = 2
    /\ eng.result.steps = 2 /\ eng.llm_calls = 2
    /\ \E i \in DOMAIN eng.blocks : eng.blocks[i].step = 1 /\ eng.blocks[i].answered

\* C24: when the first invocation of an engine with a recorder has returned
\* its result, the total_steps of the metadata derived from the journal is the
\* number of steps the result carries.
C24_TotalStepsIsStepCount ==
    (Returned /\ eng.trajectory_recorder # "none" /\ eng.result.kind = "Ok"
        /\ eng.invocations = 1) =>
        build_trajectory(eng.journal).metadata.total_steps = eng.result.steps

\* The calls of record whose append is done, over all callers.
Appends == {<<c, k>> \in Callers \X (1..MaxRecords) : k <= rec.callers[c].pushed}
Occurrences(entries, x) == {i \in DOMAIN entries : entries[i] = x}

\* C21: under any interleaving of the callers, every entry whose record call
\* has appended it is in get_entries() exactly once, entry_count is the
\* number of appends done, and a record call leaves the entries that were
\* in the journal where they were, the new one behind them.
C21_ExactlyOnce ==
    /\ \A a \in Appends :
          Cardinality(Occurrences(get_entries(rec), JournalEntry(a[1], a[2]))) = 1
    /\ entry_count(rec) = Cardinality(Appends)
C21_OrderKept ==
    \A c \in Callers :
        rec'.callers[c].pushed = rec.callers[c].pushed + 1 =>
            get_entries(rec') =
                Append(get_entries(rec), JournalEntry(c, rec'.callers[c].pushed))
C21_ConcurrentRecord == []C21_ExactlyOnce /\ [][C21_OrderKept]_vars

\* Both callers have appended twice, the calls interleaved.
C21_Witness ==
    /\ \A c \in Callers : rec.callers[c].pushed = 2
    /\ entry_count(rec) = 4
    /\ get_entries(rec)[1] = JournalEntry("a", 1)
    /\ get_entries(rec)[2] = JournalEntry("b", 1)
    /\ get_entries(rec)[3] = JournalEntry("b", 2)
    /\ get_entries(rec)[4] = JournalEntry("a", 2)

\* The entries of the persisted document, none if the file is not one.
PersistedEntries(r) ==
    IF load(r.file, "trajectory.json").ok
    THEN load(r.file, "trajectory.json").trajectory.entries ELSE <<>>
ReturnsOk(c) ==
    rec.callers[c].pc = "writing" /\ rec'.callers[c].pc = "idle" /\ rec'.callers[c].last = "Ok"
Quiescent == \A c \in Callers : rec.callers[c].pc = "idle" /\ rec.callers[c].last = "Ok"

\* C22: on an auto-persist recorder a record call that returns Ok leaves a
\* persisted document with every entry appended so far, its own included,
\* whatever the interleaving; and when every record call has returned Ok the
\* persisted entries are the entries in memory.
C22_AtReturn ==
    \A c \in Callers :
        ReturnsOk(c) =>
            /\ load(rec'.file, "trajectory.json").ok
            /\ PersistedEntries(rec') = get_entries(rec')
C22_AtRest == (rec.auto_save /\ Quiescent) => PersistedEntries(rec) = get_entries(rec)
C22_PersistedAfterRecord == []C22_AtRest /\ [][C22_AtReturn]_vars

\* C25: every operation of the recorder's public interface leaves the
\* entries it found as a prefix of the entries it leaves.
C25_AppendOnly == [][IsPrefix(get_entries(rec), get_entries(rec'))]_vars

\* C23: load answers a path that does not exist with LoadFailed carrying the
\* path, a path that exists without holding a valid trajectory document with
\* InvalidFormat, and a valid document with its trajectory.
C23_Missing ==
    (probe.op = "load" /\ probe.file = Absent) =>
        probe.out = [ok |-> FALSE, error |-> "LoadFailed", path |-> probe.path]
C23_Valid ==
    (probe.op = "load" /\ probe.saved.some) =>
        probe.out = [ok |-> TRUE, trajectory |-> probe.saved.value]
C23_LoadErrors ==
    /\ C23_Missing
    /\ C23_Valid
    /\ (probe.op = "load" /\ probe.file # Absent /\ ~probe.saved.some) =>
            probe.out = [ok |-> FALSE, error |-> "InvalidFormat"]

\* C23, as the code has it: InvalidFormat answers a text that does not parse
\* as a trajectory; what cannot be read as text is answered with the error of
\* the read, which is neither of the two.
C23_LoadErrorsOfReadableFiles ==
    /\ C23_Missing
    /\ C23_Valid
    /\ (probe.op = "load" /\ probe.file.kind = "text" /\ ~probe.saved.some) =>
            probe.out = [ok |-> FALSE, error |-> "InvalidFormat"]
    /\ (probe.op = "load" /\ probe.file = Unreadable) =>
            ~probe.out.ok /\ probe.out.error \notin {"LoadFailed", "InvalidFormat"}

\* A saved journal of two entries was loaded back.
C23_Witness ==
    /\ probe.op = "load" /\ probe.saved.some /\ probe.out.ok
    /\ Len(probe.out.trajectory.entries) = 2
    /\ probe.out.trajectory.metadata.total_steps = 2

\* The messages of a list that are not System messages, in their order.
RECURSIVE WithoutSystem(_)
WithoutSystem(ms) ==
    IF ms = <<>> THEN <<>>
    ELSE (IF Head(ms).role = "System" THEN <<>> ELSE <<Head(ms)>>)
         \o WithoutSystem(Tail(ms))
\* The positions of the System messages that have text.
SystemTexts(ms) == {i \in DOMAIN ms : ms[i].role = "System" /\ get_text(ms[i]).some}

\* C27: the request build_request makes has no System message in its
\* conversation list and all other messages in their original order; its
\* system field is the text of the last System message that has text, and is
\* absent when there is none; and max_tokens is 4096 when no option is given.
C27_RequestShape ==
    probe.op = "build_request" =>
        LET st == SystemTexts(probe.messages)
        IN  /\ \A i \in DOMAIN probe.request.messages :
                  probe.request.messages[i].role # "System"
            /\ probe.request.messages = WithoutSystem(probe.messages)
            /\ (st = {}) = ~probe.request.system.some
            /\ \A i \in st :
                  (\A j \in st : j <= i) =>
                      probe.request.system = SomeOf(get_text(probe.messages[i]).parts)
            /\ ~probe.options.some => probe.request.max_tokens = 4096
            /\ (probe.options.some /\ ~probe.options.value.max_tokens.some) =>
                  probe.request.max_tokens = 4096

\* Two System texts around a User message, no options: the later text is the
\* system field and the User message is the conversation.
C27_Witness ==
    /\ probe.op = "build_request" /\ ~probe.options.some
    /\ probe.messages =
          <<Text("System", "be brief"), Text("User", "hi"), Text("System", "be kind")>>
    /\ probe.request.system = SomeOf(<<"be kind">>)
    /\ probe.request.messages = <<Text("User", "hi")>>
    /\ probe.request.max_tokens = 4096

\* The calls that are inside execute_task_with_context.
Inside(cl) == {c \in 1..MaxSessions : cl.calls[c].pc = "run"}

\* The calls that hold the agent with their futures built.
Holding(cl) == {c \in 1..MaxSessions : cl.calls[c].pc \in {"select", "run"}}

\* C26: whatever the interleaving of the calls that share the slot, at most
\* one of them is inside execute_task_with_context, the agent is created at
\* most once, and a call that finds the agent makes its own controller the
\* agent's and, when its task is entered, runs it on that instance with the
\* history it has.
C26_Exclusive ==
    /\ Cardinality(Holding(cli)) <= 1
    /\ \A c \in Holding(cli) :
          cli.holder = c /\ cli.agent.some /\ cli.agent.abort_controller = c
C26_CreatedOnce == cli.created <= 1 /\ (cli.created = 1 <=> cli.agent.some)
C26_Reuse ==
    \A c \in 1..MaxSessions :
        /\ (c \in Holding(cli') \ Holding(cli) /\ cli.agent.some) =>
              /\ cli'.agent.id = cli.agent.id
              /\ cli'.agent.tasks = cli.agent.tasks
              /\ cli'.agent.abort_controller = c
              /\ cli'.agent.abort_registration = c
        /\ (c \in Inside(cli') \ Inside(cli)) =>
              /\ cli.calls[c].pc = "select"
              /\ cli'.agent.id = cli.agent.id
              /\ cli'.agent.tasks = Append(cli.agent.tasks, c)
              /\ cli'.agent.abort_controller = c
              /\ cli'.agent.abort_registration = c
C26_OneAgentOneTask ==
    []C26_Exclusive /\ []C26_CreatedOnce /\ [][C26_Reuse]_vars

\* The first call failed to create the agent, the second created it and was
\* interrupted, the third runs on the second's agent.
C26_Witness ==
    /\ cli.calls[1].pc = "done" /\ cli.calls[1].result = "Err"
    /\ cli.calls[2].pc = "done" /\ 2 \in cli.cancelled
    /\ cli.calls[3].pc = "run"
    /\ cli.agent.id = 2 /\ cli.agent.tasks = <<2, 3>>
    /\ cli.agent.abort_controller = 3 /\ cli.created = 1

HeadIsSystem(h) == Len(h) > 0 /\ h[1].role = "System"

\* C31: the list handed to an LLM call begins with a System message: it is
\* the stored history when that begins with a System message, and the system
\* prompt followed by the stored history otherwise; building it leaves the
\* stored history as it was.
C31_Outbound ==
    eng.pc = "llm" =>
        /\ HeadIsSystem(eng.messages)
        /\ HeadIsSystem(eng.conversation_history) =>
                eng.messages = eng.conversation_history
        /\ ~HeadIsSystem(eng.conversation_history) =>
                /\ eng.messages[1] = SystemPrompt
                /\ Tail(eng.messages) = eng.conversation_history
C31_HistoryKept ==
    (eng.pc = "select" /\ eng'.pc = "llm") =>
        eng'.conversation_history = eng.conversation_history
C31_OutboundBeginsWithSystem == []C31_Outbound /\ [][C31_HistoryKept]_vars

\* A call is made on a restored history that has no System message.
C31_Witness ==
    /\ eng.pc = "llm"
    /\ eng.conversation_history = <<Text("User", "earlier"), UserMessage("t1")>>
    /\ eng.messages = <<SystemPrompt, Text("User", "earlier"), UserMessage("t1")>>

\* The invocation entered is the first one since the restore.
FirstSinceRestore ==
    Enters /\ probe.op = "restore_from_history" /\ probe.invocations = eng.invocations

\* C40: the first invocation after restore_from_history starts from a fresh
\* execution context: original_goal and current_task are its task, the step
\* counter is 0 and the token counters are zero, whatever the context was
\* before the restore.
C40_Fresh ==
    FirstSinceRestore =>
        /\ eng'.execution_context.some
        /\ eng'.execution_context.original_goal = eng'.task
        /\ eng'.execution_context.current_task = eng'.task
        /\ eng'.execution_context.current_step = 0
        /\ eng'.execution_context.token_usage.input_tokens = 0
        /\ eng'.execution_context.token_usage.output_tokens = 0
        /\ eng'.execution_context.token_usage.total_tokens = 0
C40_FreshContextAfterRestore == [][C40_Fresh]_vars

\* The engine had run t1 and counted tokens; after the restore t2 is entered.
C40_Witness ==
    /\ probe.op = "restore_from_history" /\ probe.invocations = 1
    /\ probe.before.some /\ probe.before.original_goal = "t1"
    /\ probe.before.token_usage.total_tokens > 0
    /\ eng.invocations = 2 /\ eng.pc = "loop" /\ eng.step = 0
    /\ eng.execution_context.original_goal = "t2"
    /\ eng.execution_context.token_usage = TokenUsageDefault

\* The types of the events a step has added, in their order.
EmittedTypes ==
    [i \in 1..(Len(eng'.events) - Len(eng.events)) |->
        eng'.events[Len(eng.events) + i].type]
Compressed == SameInvocation /\ eng.pc = "loop" /\ eng'.pc = "check"

\* C32: when the compression manager succeeds the stored history becomes the
\* messages it returned, and CompressionStarted then CompressionCompleted
\* are emitted exactly when the result carries a summary, CompressionFailed
\* never; when it fails CompressionFailed alone is emitted.
C32_Succeeds ==
    (Compressed /\ eng'.last_comp = "summary") =>
        /\ eng'.conversation_history = Summarised(eng.conversation_history)
        /\ EmittedTypes = <<"CompressionStarted", "CompressionCompleted">>
C32_Unchanged ==
    (Compressed /\ eng'.last_comp = "unchanged") =>
        /\ eng'.conversation_history = eng.conversation_history
        /\ EmittedTypes = <<>>
C32_Fails ==
    (Compressed /\ eng'.last_comp = "error") => EmittedTypes = <<"CompressionFailed">>
C32_CompressionEvents ==
    [][C32_Succeeds]_vars /\ [][C32_Unchanged]_vars /\ [][C32_Fails]_vars

\* A summary replaced the history and its two events are the last emitted.
C32_Witness ==
    /\ eng.pc = "check" /\ eng.last_comp = "summary" /\ Len(eng.events) >= 2
    /\ eng.events[Len(eng.events) - 1].type = "CompressionStarted"
    /\ eng.events[Len(eng.events)].type = "CompressionCompleted"
    /\ \E i \in DOMAIN eng.conversation_history :
          eng.conversation_history[i] = Text("User", "summary")

\* C33: the task and the success of the metadata derived from a journal that
\* spans several invocations are about the same task: task is the text of the
\* last task_start entry, and success is present only when a task_complete
\* entry follows that task_start, and is then that entry's flag.
C33_TaskAndSuccessAgree ==
    eng.trajectory_recorder # "none" =>
        LET metadata == build_trajectory(eng.journal).metadata
            ts == LastOfType(eng.journal, "task_start")
            tc == LastOfType(eng.journal, "task_complete")
        IN  /\ ts > 0 => metadata.task = SomeOf(eng.journal[ts].task)
            /\ metadata.success.some =>
                  tc > ts /\ metadata.success.value = eng.journal[tc].success

\* The entries of the invocation recorded last: from its task_start on.
InvocationEntries ==
    LET ts == LastOfType(eng.journal, "task_start")
    IN  IF ts = 0 THEN <<>> ELSE SubSeq(eng.journal, ts, Len(eng.journal))
\* The kinds of entry that can come right after an entry of a kind: within a
\* step llm_request, llm_response, tool_call and tool_result pairs, then
\* step_complete, or error where the step failed; task_complete after the
\* last step.
FollowsInOrder(a, b) ==
    CASE a = "task_start"    -> b \in {"llm_request", "task_complete"}
      [] a = "llm_request"   -> b \in {"llm_response", "error"}
      [] a = "llm_response"  -> b \in {"tool_call", "step_complete", "error"}
      [] a = "tool_call"     -> b \in {"tool_result", "error"}
      [] a = "tool_result"   -> b \in {"tool_call", "step_complete", "error"}
      [] a = "step_complete" -> b \in {"llm_request", "task_complete"}
      [] OTHER               -> FALSE
\* The step number an entry carries, given the entry before it.
StepInOrder(x, y) ==
    IF y.type = "llm_request" THEN y.step = x.step + 1
    ELSE IF y.type = "task_complete" THEN y.step >= x.step
    ELSE y.step = x.step
JournalInOrder(j) ==
    /\ j # <<>> => j[1].type = "task_start" /\ j[1].step = 0
    /\ \A i \in 1..(Len(j) - 1) :
          FollowsInOrder(j[i].type, j[i + 1].type) /\ StepInOrder(j[i], j[i + 1])

\* C34: the entries an invocation records are in order: task_start first;
\* in each step llm_request, llm_response, then tool_call immediately
\* followed by tool_result for each block, then step_complete, or error if
\* the step failed; every entry carries the number of its step, and the
\* numbers never decrease.
C34_JournalOrder ==
    eng.trajectory_recorder # "none" => JournalInOrder(InvocationEntries)

\* The same, for invocations that saw no cancellation while a step was
\* suspended.
C34_OrderUnlessRaced ==
    (eng.trajectory_recorder # "none"
        /\ eng.cancel_seen \notin {"race_outer", "race_inner"}) =>
        JournalInOrder(InvocationEntries)

\* C35: whenever an invocation returns a result, the current_step of the
\* execution context is the step count the result carries.
C35_CurrentStepIsResultSteps ==
    (Returned /\ eng.result.kind = "Ok") =>
        /\ eng.execution_context.some
        /\ eng.execution_context.current_step = eng.result.steps

\* The controller the engine holds has been cancelled.
ControllerCancelled == eng.abort_controller \in cancelled

\* C36: with the engine's controller cancelled and no other installed, an
\* invocation (max_steps >= 1) appends its User message on entry and is ended
\* as Interrupted by its next step, before any LLM call or tool call.
C36_Entry ==
    (Enters /\ ControllerCancelled /\ eng.config.max_steps >= 1) =>
        /\ eng'.pc = "loop" /\ eng'.step = 0 /\ eng'.llm_calls = 0
        /\ eng'.conversation_history[Len(eng'.conversation_history)]
              = UserMessage(eng'.task)
C36_Ends ==
    (eng.pc = "loop" /\ eng.step = 0 /\ ControllerCancelled
        /\ eng.config.max_steps >= 1 /\ eng' # eng) =>
        /\ eng'.pc = "idle" /\ IsInterruptedResult(eng'.result)
        /\ Interrupted' # {}
        /\ eng'.llm_calls = 0 /\ eng'.blocks = <<>>
        /\ eng'.conversation_history = eng.conversation_history
C36_CancelledControllerStaysCancelled == [][C36_Entry]_vars /\ [][C36_Ends]_vars

\* The second invocation on the cancelled controller has ended Interrupted
\* with its User message last in the history and no call made.
C36_Witness ==
    /\ Returned /\ eng.invocations = 2 /\ ControllerCancelled
    /\ eng.abort_controller = "c1"
    /\ IsInterruptedResult(eng.result) /\ eng.llm_calls = 0 /\ eng.blocks = <<>>
    /\ eng.conversation_history[Len(eng.conversation_history)] = UserMessage("t2")
    /\ eng.calls_total >= 1

\* C37: a call is interrupted only by an AgentExecutionInterrupted message
\* that was broadcast while its own task was running: the message that ends
\* it was sent after its task_future existed, never while the call was still
\* waiting for the agent lock.
C37_Interrupts ==
    \A c \in 1..MaxSessions :
        (c \in Holding(cli) /\ c \in cli'.cancelled \ cli.cancelled) =>
            cli.calls[c].next > cli.calls[c].started_at
C37_InterruptsOnlyTheRunningTask == [][C37_Interrupts]_vars

\* C38: a call leaves the select! by the interrupt branch only on an
\* AgentExecutionInterrupted message, with its controller cancelled and an
\* error returned; a call that returns Ok returns the result of its task.
C38_ByInterrupt ==
    \A c \in 1..MaxSessions :
        cli.calls[c].by = "interrupt_future" =>
            cli.calls[c].result = "Err" /\ c \in cli.cancelled
C38_OkIsTaskResult ==
    \A c \in 1..MaxSessions :
        cli.calls[c].result = "Ok" => cli.calls[c].by = "task_future"
C38_OnlyInterruptionStopsTheWait == C38_ByInterrupt /\ C38_OkIsTaskResult

\* The execution ids whose last tool event so far is ToolExecutionStarted.
InFlight(events) ==
    {i \in 1..MaxExecutions :
        \E k \in 1..Len(events) :
            /\ events[k].type = "ToolExecutionStarted"
            /\ events[k].tool_info.execution_id = i
            /\ \A l \in (k + 1)..Len(events) :
                  ~(events[l].type = "ToolExecutionCompleted"
                      /\ events[l].tool_info.execution_id = i)}

\* C39: active_tools holds exactly the execution ids that have been started
\* and not completed since, whatever the tool name: a started id is added,
\* its completion removes it, a completion of an id that is not tracked changes
\* nothing, and once every started tool has completed the map is empty.
C39_ActiveToolsAreTheToolsInFlight ==
    DOMAIN out.active_tools = InFlight(out.events)

====
